---- MODULE Spec2Model ----
(***************************************************************************)
(* State-machine model of the file relocation engine of                    *)
(* django-file-organizer: FileOrganizer (organizer/file_organizer.py) and  *)
(* the request handler process_files (organizer/views.py).                 *)
(*                                                                         *)
(* File names are sequences of one-character strings so that the string    *)
(* operations of the code (splitext, Path.suffix, Path.stem, the regular   *)
(* expressions, str.lower, int(), f"{counter}") are computed, not assumed. *)
(* Directories are sequences of path components (strings).                 *)
(***************************************************************************)
EXTENDS Integers, Sequences, FiniteSets, TLC

(***************************************************************************)
(* Characters and strings                                                  *)
(***************************************************************************)
UpperToLower ==
  [c \in {"A","B","C","D","E","F","G","H","I","J","K","L","M",
          "N","O","P","Q","R","S","T","U","V","W","X","Y","Z"} |->
     CASE c = "A" -> "a" [] c = "B" -> "b" [] c = "C" -> "c" [] c = "D" -> "d"
       [] c = "E" -> "e" [] c = "F" -> "f" [] c = "G" -> "g" [] c = "H" -> "h"
       [] c = "I" -> "i" [] c = "J" -> "j" [] c = "K" -> "k" [] c = "L" -> "l"
       [] c = "M" -> "m" [] c = "N" -> "n" [] c = "O" -> "o" [] c = "P" -> "p"
       [] c = "Q" -> "q" [] c = "R" -> "r" [] c = "S" -> "s" [] c = "T" -> "t"
       [] c = "U" -> "u" [] c = "V" -> "v" [] c = "W" -> "w" [] c = "X" -> "x"
       [] c = "Y" -> "y" [] c = "Z" -> "z"]

LowerLetters ==
  {"a","b","c","d","e","f","g","h","i","j","k","l","m",
   "n","o","p","q","r","s","t","u","v","w","x","y","z"}

Digits == <<"0","1","2","3","4","5","6","7","8","9">>

IsAlpha(c) == c \in LowerLetters \/ c \in DOMAIN UpperToLower

IsDigit(c) == \E i \in 1..10 : Digits[i] = c

DigitValue(c) == (CHOOSE i \in 1..10 : Digits[i] = c) - 1

LowerChar(c) == IF c \in DOMAIN UpperToLower THEN UpperToLower[c] ELSE c

\* str.lower()
Lower(s) == [i \in 1..Len(s) |-> LowerChar(s[i])]

\* the text of a character sequence, as one string (a path component)
RECURSIVE Join(_)
Join(s) == IF s = <<>> THEN "" ELSE Head(s) \o Join(Tail(s))

\* str.rfind(ch), 1-based; 0 when ch does not occur
RFind(s, ch) ==
  IF \E i \in 1..Len(s) : s[i] = ch
    THEN CHOOSE i \in 1..Len(s) : s[i] = ch /\ \A j \in (i+1)..Len(s) : s[j] # ch
    ELSE 0

\* str.startswith(prefix)
StartsWith(s, prefix) ==
  /\ Len(prefix) <= Len(s)
  /\ \A i \in 1..Len(prefix) : s[i] = prefix[i]

\* f"{counter}" for a non-negative integer
RECURSIVE IntToStr(_)
IntToStr(n) ==
  IF n < 10 THEN <<Digits[n + 1]>>
  ELSE Append(IntToStr(n \div 10), Digits[(n % 10) + 1])

\* int(text) for a non-empty run of decimal digits
RECURSIVE StrToInt(_)
StrToInt(s) ==
  IF Len(s) = 1 THEN DigitValue(s[1])
  ELSE 10 * StrToInt(SubSeq(s, 1, Len(s) - 1)) + DigitValue(s[Len(s)])

\* os.path.splitext(name): the extension starts at the last dot, unless only
\* dots precede that dot
SplitExt(p) ==
  LET dotIndex == RFind(p, ".")
  IN IF dotIndex > 0 /\ \E i \in 1..(dotIndex - 1) : p[i] # "."
       THEN [name |-> SubSeq(p, 1, dotIndex - 1), ext |-> SubSeq(p, dotIndex, Len(p))]
       ELSE [name |-> p, ext |-> <<>>]

\* pathlib.PurePath.suffix: the last dot must be neither the first nor the
\* last character of the name
PathSuffix(name) ==
  LET i == RFind(name, ".")
  IN IF 1 < i /\ i < Len(name) THEN SubSeq(name, i, Len(name)) ELSE <<>>

\* pathlib.PurePath.stem
PathStem(name) ==
  LET i == RFind(name, ".")
  IN IF 1 < i /\ i < Len(name) THEN SubSeq(name, 1, i - 1) ELSE name

\* the length of the run of decimal digits that ends the string
RECURSIVE TrailingDigits(_)
TrailingDigits(s) ==
  IF s # <<>> /\ IsDigit(s[Len(s)])
    THEN 1 + TrailingDigits(SubSeq(s, 1, Len(s) - 1))
    ELSE 0

\* re.search(r'_(\d+)$', stem): group 1, or <<>> when there is no match
SearchCounter(stem) ==
  LET d == TrailingDigits(stem)
  IN IF d > 0 /\ d < Len(stem) /\ stem[Len(stem) - d] = "_"
       THEN SubSeq(stem, Len(stem) - d + 1, Len(stem))
       ELSE <<>>

\* the length of the run of letters that starts the string
RECURSIVE LeadingAlpha(_)
LeadingAlpha(s) ==
  IF s # <<>> /\ IsAlpha(Head(s)) THEN 1 + LeadingAlpha(Tail(s)) ELSE 0

\* str.split('_')[0]
FirstPart(s) ==
  IF \E i \in 1..Len(s) : s[i] = "_"
    THEN SubSeq(s, 1, (CHOOSE i \in 1..Len(s) :
                         s[i] = "_" /\ \A j \in 1..(i - 1) : s[j] # "_") - 1)
    ELSE s

(***************************************************************************)
(* Classification and owner inference                                      *)
(***************************************************************************)
\* FileOrganizer.FILE_TYPE_MAPPINGS
FILE_TYPE_MAPPINGS ==
  ".png" :> "pngfiles" @@ ".jpg" :> "jpgfiles" @@ ".jpeg" :> "jpgfiles" @@ ".gif" :> "giffiles" @@
  ".bmp" :> "bmpfiles" @@ ".tiff" :> "tifffiles" @@ ".webp" :> "webpfiles" @@ ".mp4" :> "mp4files" @@
  ".avi" :> "avifiles" @@ ".mov" :> "movfiles" @@ ".wmv" :> "wmvfiles" @@ ".flv" :> "flvfiles" @@
  ".webm" :> "webmfiles" @@ ".mkv" :> "mkvfiles" @@ ".pdf" :> "pdffiles" @@ ".doc" :> "docfiles" @@
  ".docx" :> "docxfiles" @@ ".txt" :> "txtfiles" @@ ".rtf" :> "rtffiles" @@ ".csv" :> "csvfiles" @@
  ".xls" :> "xlsfiles" @@ ".xlsx" :> "xlsxfiles" @@ ".ppt" :> "pptfiles" @@ ".pptx" :> "pptxfiles" @@
  ".zip" :> "zipfiles" @@ ".rar" :> "rarfiles" @@ ".7z" :> "7zfiles" @@ ".tar" :> "tarfiles" @@
  ".gz" :> "gzfiles" @@ ".mp3" :> "mp3files" @@ ".wav" :> "wavfiles" @@ ".flac" :> "flacfiles" @@
  ".aac" :> "aacfiles" @@ ".py" :> "pyfiles" @@ ".js" :> "jsfiles" @@ ".html" :> "htmlfiles" @@
  ".css" :> "cssfiles" @@ ".java" :> "javafiles" @@ ".cpp" :> "cppfiles" @@ ".c" :> "cfiles" @@
  ".json" :> "jsonfiles" @@ ".xml" :> "xmlfiles" @@ ".sql" :> "sqlfiles"

\* the file_type_mappings dictionary local to views.process_files
file_type_mappings ==
  ".png" :> "pngfiles" @@ ".jpg" :> "jpgfiles" @@ ".jpeg" :> "jpgfiles" @@ ".gif" :> "giffiles" @@
  ".bmp" :> "bmpfiles" @@ ".tiff" :> "tifffiles" @@ ".mp4" :> "mp4files" @@ ".avi" :> "avifiles" @@
  ".mov" :> "movfiles" @@ ".wmv" :> "wmvfiles" @@ ".flv" :> "flvfiles" @@ ".pdf" :> "pdffiles" @@
  ".doc" :> "docfiles" @@ ".docx" :> "docxfiles" @@ ".txt" :> "txtfiles" @@ ".csv" :> "csvfiles" @@
  ".xls" :> "xlsfiles" @@ ".xlsx" :> "xlsxfiles" @@ ".ppt" :> "pptfiles" @@ ".pptx" :> "pptxfiles" @@
  ".mp3" :> "mp3files" @@ ".wav" :> "wavfiles" @@ ".flac" :> "flacfiles" @@ ".zip" :> "zipfiles" @@
  ".rar" :> "rarfiles" @@ ".7z" :> "7zfiles" @@ ".html" :> "htmlfiles" @@ ".htm" :> "htmlfiles" @@
  ".css" :> "cssfiles" @@ ".js" :> "jsfiles" @@ ".py" :> "pyfiles" @@ ".java" :> "javafiles" @@
  ".cpp" :> "cppfiles" @@ ".c" :> "cfiles" @@ ".xml" :> "xmlfiles" @@ ".json" :> "jsonfiles" @@
  ".sql" :> "sqlfiles"

\* FileOrganizer.KNOWN_OWNERS, in list order
KNOWN_OWNERS ==
  << <<"r","o","h","i","t","h">>, <<"s","a","c","h","i","n">>,
     <<"n","i","t","i","n">>, <<"h","i","m","a","n","i">> >>

\* get_file_type_category looking the suffix up as it is written
get_file_type_category_as_written(name) ==
  LET extension == Join(PathSuffix(name))
  IN IF extension \in DOMAIN FILE_TYPE_MAPPINGS
       THEN FILE_TYPE_MAPPINGS[extension]
       ELSE "otherfiles"

\* FileOrganizer.get_file_type_category, on the file's name
get_file_type_category(name) ==
  LET extension == Join(Lower(PathSuffix(name)))
  IN IF extension \in DOMAIN FILE_TYPE_MAPPINGS
       THEN FILE_TYPE_MAPPINGS[extension]
       ELSE "otherfiles"

\* FileOrganizer.extract_owner_name
extract_owner_name(filename) ==
  LET filename_lower == Lower(filename)
      n == LeadingAlpha(filename)
  IN IF \E i \in 1..Len(KNOWN_OWNERS) : StartsWith(filename_lower, KNOWN_OWNERS[i])
       THEN KNOWN_OWNERS[CHOOSE i \in 1..Len(KNOWN_OWNERS) :
                           /\ StartsWith(filename_lower, KNOWN_OWNERS[i])
                           /\ \A j \in 1..(i - 1) :
                                ~StartsWith(filename_lower, KNOWN_OWNERS[j])]
       ELSE IF n > 0 /\ n < Len(filename) /\ filename[n + 1] \in {"_", "-"}
              THEN Lower(SubSeq(filename, 1, n))
              ELSE <<"u","n","k","n","o","w","n">>

\* views.extract_owner_name: the stem up to its first underscore, lowercased
views_extract_owner_name(filename) == Lower(FirstPart(PathStem(filename)))

(***************************************************************************)
(* Paths and the file system                                               *)
(*   a path is [dir, name]; F maps the paths of the existing regular files *)
(*   to their content, D is the set of existing directories                *)
(***************************************************************************)
PathOf(dir, name) == [dir |-> dir, name |-> name]

\* the directory path that has the same text as a file path
AsDir(p) == Append(p.dir, Join(p.name))

\* Path.exists() / os.path.exists()
Exists(p, F, D) == p \in DOMAIN F \/ AsDir(p) \in D

IsPrefix(d, e) == Len(d) <= Len(e) /\ SubSeq(e, 1, Len(d)) = d

\* the directories mkdir(parents=True) / os.makedirs leaves in place
Ancestors(dir) == {SubSeq(dir, 1, k) : k \in 1..Len(dir)}

\* mkdir(parents=True, exist_ok=True) raises when a component is a regular file
MkdirBlocked(dir, F) ==
  \E p \in DOMAIN F : AsDir(p) \in Ancestors(dir)

\* the probing loop of generate_unique_filename, from a given counter
RECURSIVE Probe(_, _, _, _, _, _)
Probe(target_path, name, ext, counter, F, D) ==
  LET new_filename == name \o <<"_">> \o IntToStr(counter) \o ext
      new_path == PathOf(target_path, new_filename)
  IN IF ~Exists(new_path, F, D)
       THEN [path |-> new_path, counter |-> counter]
       ELSE Probe(target_path, name, ext, counter + 1, F, D)

\* generate_unique_filename with the counter starting at 2
generate_unique_filename_from_two(target_path, original_filename, F, D) ==
  LET file_path == PathOf(target_path, original_filename)
      parts == SplitExt(original_filename)
  IN IF ~Exists(file_path, F, D)
       THEN [path |-> file_path, counter |-> 0]
       ELSE Probe(target_path, parts.name, parts.ext, 2, F, D)

\* FileOrganizer.generate_unique_filename; counter is the value of the local
\* variable when the function returns (0 when the loop is not entered)
generate_unique_filename(target_path, original_filename, F, D) ==
  LET file_path == PathOf(target_path, original_filename)
      parts == SplitExt(original_filename)
  IN IF ~Exists(file_path, F, D)
       THEN [path |-> file_path, counter |-> 0]
       ELSE Probe(target_path, parts.name, parts.ext, 1, F, D)

\* views.handle_duplicate_filename
handle_duplicate_filename(directory, filename, F, D) ==
  LET base_path == PathOf(directory, filename)
      parts == SplitExt(filename)
  IN IF ~Exists(base_path, F, D)
       THEN base_path
       ELSE Probe(directory, parts.name, parts.ext, 1, F, D).path

(***************************************************************************)
(* Bounds and the catalogue of file names                                  *)
(***************************************************************************)
\* the number of files under the input directory when the run starts, each
\* input file in a subfolder of its own
MaxFiles == 2

\* the number of I/O or persistence failures the environment injects in a run
MaxFaults == 1

\* name shapes: known owner, prefix + delimiter with an upper-case extension,
\* trailing dot, two leading dots, no extension, unmapped extension, several
\* dots, one leading dot
Families ==
  { <<"r","o","h","i","t","h","_","a",".","p","d","f">>,
    <<"B","o","b","-","x",".","T","X","T">>,
    <<"a",".">>,
    <<".",".","a">>,
    <<"m","y","_","a">>,
    <<"x",".","z","z">>,
    <<"b",".","t","a","r",".","g","z">>,
    <<".","e","n","v">> }

\* a file of another category and owner
Companion == <<"n","i","t","i","n",".","c","s","v">>

\* name with the suffix _k in front of its extension
Suffixed(name, k) ==
  SplitExt(name).name \o <<"_">> \o IntToStr(k) \o SplitExt(name).ext

\* what a source subfolder holds: nothing, a file with the family name, a
\* file whose name is the family name with the suffix _1 already in it, or
\* the companion
SlotChoices == {"none", "base", "alike", "other"}

\* the subfolders are interchangeable and files routed to different target
\* directories do not interact: the files that go to the family's target
\* directory are laid out first (in any order, at most one of them with the
\* suffixed name), then at most one companion, then the empty subfolders
Rank(choice) ==
  CASE choice \in {"base", "alike"} -> 2 [] choice = "other" -> 1 [] OTHER -> 0

Layouts ==
  {f \in [1..MaxFiles -> SlotChoices] :
     /\ \A k \in 1..(MaxFiles - 1) : Rank(f[k]) >= Rank(f[k + 1])
     /\ Cardinality({k \in 1..MaxFiles : f[k] = "other"}) <= 1
     /\ Cardinality({k \in 1..MaxFiles : f[k] = "alike"}) <= 1}

NameOf(family, choice) ==
  CASE choice = "base" -> family
    [] choice = "alike" -> Suffixed(family, 1)
    [] OTHER -> Companion

Subfolder(k) == "s" \o Join(IntToStr(k))

NoDir == <<>>

NoPath == [dir |-> <<>>, name |-> <<>>]

\* the arguments of a run: the input directory and the optional output
\* directory (NoDir when it is omitted).  An input directory that is itself
\* named 'output' makes the default output directory the input directory.
RunConfigs ==
  { [input |-> <<"in">>, output |-> NoDir],
    [input |-> <<"output">>, output |-> NoDir] }

Engines == {"organizer", "views"}

(***************************************************************************)
(* State                                                                   *)
(***************************************************************************)
VARIABLES
  engine,             \* which entry point runs: FileOrganizer or process_files
  input_directory,    \* self.input_directory / input_path
  output_directory,   \* self.output_directory / session.output_directory
  fs,                 \* regular files: path -> content (the path the
                      \* content had when the run began)
  dirs,               \* existing directories
  pc,                 \* position of the run
  session,            \* the ProcessingSession object held by the run
  db_session,         \* the ProcessingSession row as last saved
  files_to_organize,  \* the list scan_files returned
  idx,                \* index of the next file of the loop
  walk,               \* os.walk in process_files: pending directories, files
  stats,              \* self.stats / the counters local to process_files
  records,            \* FileMetadata rows created by the run
  result,             \* what the run returned
  faults,             \* failures injected so far
  scan_log,           \* what the directory scan met
  hist,               \* what each per-file step found and did
  call,               \* a call of one of the pure functions: its name, its
                      \* arguments and, once it returned, what it returned
  previous,           \* the run made on the same directories before this
                      \* one: what it returned and the files it left
  racers              \* the per-file steps of runs that share the output
                      \* directory, each between its calls

vars == <<engine, input_directory, output_directory, fs, dirs, pc, session,
          db_session, files_to_organize, idx, walk, stats, records, result,
          faults, scan_log, hist, call, previous, racers>>

\* no run was made before this one
NoRun == [returned |-> FALSE]

\* no run shares the output directory
NoRacers == <<>>

\* no pure function is being called on its own
NoCall == [fn |-> "none", arg |-> <<>>, values |-> <<>>]

NoSession == [status |-> "none", completed_at |-> FALSE,
              total_files_processed |-> 0, error_message |-> FALSE]

NoResult == [returned |-> FALSE]

\* ProcessingSession.objects.create(..., status='running') with the defaults
\* of models.ProcessingSession
NewSession == [status |-> "running", completed_at |-> FALSE,
               total_files_processed |-> 0, error_message |-> FALSE]

EmptyStats == [total_files |-> 0, files_by_type |-> <<>>, files_by_owner |-> <<>>,
               duplicates |-> 0, errors |-> <<>>]

\* dict[key] = 1, whatever the count was
Incr_set_to_one(d, key) ==
  IF key \in DOMAIN d THEN [d EXCEPT ![key] = 1] ELSE d @@ (key :> 1)

\* dict[key] = dict.get(key, 0) + 1
Incr(d, key) ==
  IF key \in DOMAIN d THEN [d EXCEPT ![key] = @ + 1] ELSE d @@ (key :> 1)

Message(kind, file) == [kind |-> kind, file |-> file]

Parent(dir) == SubSeq(dir, 1, Len(dir) - 1)

\* FileOrganizer.__init__: the output directory, defaulting to the sibling
\* 'output' of the input directory
InitOutputDirectory(inp, out) ==
  IF out # NoDir THEN out ELSE Append(Parent(inp), "output")

\* process_files: os.path.join(os.path.dirname(input_path), 'output')
ViewsOutputDirectory(inp) == Append(Parent(inp), "output")

\* the directory a name is routed to by each entry point
TargetDirectory(e, out, name) ==
  IF e = "organizer"
    THEN out \o <<get_file_type_category(name), Join(extract_owner_name(name))>>
    ELSE LET file_ext == Join(Lower(PathSuffix(name)))
         IN out \o << IF file_ext \in DOMAIN file_type_mappings
                        THEN file_type_mappings[file_ext] ELSE "otherfiles",
                      Join(views_extract_owner_name(name)) >>

\* the files under a directory
FilesUnder(dir, F) == {p \in DOMAIN F : IsPrefix(dir, p.dir)}

\* the state when a run is started: files in the subfolders of the input
\* directory, and in the output tree any of the two files that collide with
\* the family name: the name itself and the name with suffix _1.  At most
\* MaxFiles files are under the input directory, those of the output tree
\* counted when it lies inside.
Init ==
  \E e \in Engines, cfg \in RunConfigs, family \in Families, slots \in Layouts :
    LET out == IF e = "organizer"
                 THEN InitOutputDirectory(cfg.input, cfg.output)
                 ELSE ViewsOutputDirectory(cfg.input)
        used == {k \in 1..MaxFiles : slots[k] # "none"}
        inputAt(k) == PathOf(Append(cfg.input, Subfolder(k)), NameOf(family, slots[k]))
        candidates == {PathOf(TargetDirectory(e, out, family), family),
                       PathOf(TargetDirectory(e, out, family), Suffixed(family, 1))}
    IN \E prior \in SUBSET candidates :
         /\ (e = "views" => cfg.output = NoDir)
         /\ Cardinality(used) + Cardinality({p \in prior : IsPrefix(cfg.input, p.dir)})
              <= MaxFiles
         /\ engine = e
         /\ input_directory = cfg.input
         /\ output_directory = out
         /\ fs = [p \in {inputAt(k) : k \in used} \cup prior |->
                    p]
         /\ dirs = {cfg.input} \cup UNION {Ancestors(inputAt(k).dir) : k \in used}
                     \cup UNION {Ancestors(p.dir) : p \in prior}
         /\ pc = "new"
         /\ session = NoSession
         /\ db_session = NoSession
         /\ files_to_organize = <<>>
         /\ idx = 1
         /\ walk = [stack |-> <<>>, root |-> NoDir, files |-> <<>>]
         /\ stats = EmptyStats
         /\ records = <<>>
         /\ result = NoResult
         /\ faults = 0
         /\ scan_log = [done |-> FALSE, present |-> {}, failure |-> "none"]
         /\ hist = <<>>
         /\ call = NoCall
         /\ previous = NoRun
         /\ racers = NoRacers

(***************************************************************************)
(* FileOrganizer.organize_all_files                                        *)
(***************************************************************************)
\* FileOrganizer.get_results
get_results(st, out) ==
  [returned |-> TRUE,
   total_files |-> st.total_files,
   files_by_type |-> st.files_by_type,
   files_by_owner |-> st.files_by_owner,
   duplicates |-> st.duplicates,
   errors |-> st.errors,
   output_directory |-> out,
   success |-> (Len(st.errors) = 0)]

\* FileOrganizer.start_session; it is called outside the try block, so a
\* failure of the insert reaches the caller
StartSession ==
  /\ engine = "organizer"
  /\ pc = "new"
  /\ \/ /\ session' = NewSession
        /\ db_session' = NewSession
        /\ pc' = "scan"
        /\ UNCHANGED faults
     \/ /\ faults < MaxFaults
        /\ faults' = faults + 1
        /\ pc' = "raised"
        /\ UNCHANGED <<session, db_session>>
  /\ UNCHANGED <<call, previous, racers, engine, input_directory, output_directory, fs, dirs,
                 files_to_organize, idx, walk, stats, records, result,
                 scan_log, hist>>

\* the orders in which os.walk (top-down) can yield the files of S: the files
\* of a directory come before those of its subdirectories, and each subtree is
\* walked in one piece
WalkOrders(S) ==
  LET n == Cardinality(S)
      under(d, p) == IsPrefix(d, p.dir)
      prefixes == UNION {Ancestors(p.dir) : p \in S}
  IN { s \in [1..n -> S] :
         /\ \A i, j \in 1..n : i # j => s[i] # s[j]
         /\ \A i, j \in 1..n :
              i < j => ~(s[j].dir # s[i].dir /\ IsPrefix(s[j].dir, s[i].dir))
         /\ \A d \in prefixes : \A i, j, k \in 1..n :
              (i < j /\ j < k /\ under(d, s[i]) /\ under(d, s[k])) => under(d, s[j]) }

\* the source subfolder a directory is, 0 when it is none
SourceIndex(d) ==
  IF \E k \in 1..MaxFiles : d = Append(input_directory, Subfolder(k))
    THEN CHOOSE k \in 1..MaxFiles : d = Append(input_directory, Subfolder(k))
    ELSE 0

\* the source subfolders are interchangeable, so only the orders that take
\* them by increasing number are explored; the directories of the output
\* tree, when the walk meets them, come at any place
ScanOrders(S) ==
  {s \in WalkOrders(S) :
     \A i, j \in 1..Len(s) :
       (i < j /\ SourceIndex(s[i].dir) > 0 /\ SourceIndex(s[j].dir) > 0) =>
         SourceIndex(s[i].dir) <= SourceIndex(s[j].dir)}

\* FileOrganizer.scan_files.  os.walk is called without onerror, so a
\* directory it cannot list is skipped without an exception; an exception
\* that does escape the loop is caught and recorded, and the files collected
\* until then are returned.
ScanFiles ==
  /\ engine = "organizer"
  /\ pc = "scan"
  /\ LET present == FilesUnder(input_directory, fs)
     IN \/ \E order \in ScanOrders(present) :
             /\ files_to_organize' = order
             /\ scan_log' = [done |-> TRUE, present |-> present, failure |-> "none"]
             /\ UNCHANGED <<stats, faults>>
        \/ \E d \in {p.dir : p \in present} \cup {input_directory} :
             \E order \in ScanOrders({p \in present : ~IsPrefix(d, p.dir)}) :
               /\ faults < MaxFaults
               /\ faults' = faults + 1
               /\ files_to_organize' = order
               /\ scan_log' = [done |-> TRUE, present |-> present, failure |-> "skipped"]
               /\ UNCHANGED stats
        \/ \E order \in ScanOrders(present) : \E m \in 0..(Len(order) - 1) :
             /\ faults < MaxFaults
             /\ faults' = faults + 1
             /\ files_to_organize' = SubSeq(order, 1, m)
             /\ stats' = [stats EXCEPT !.errors = Append(@, Message("scan", NoPath))]
             /\ scan_log' = [done |-> TRUE, present |-> present, failure |-> "raised"]
  /\ pc' = "loop"
  /\ UNCHANGED <<call, previous, racers, engine, input_directory, output_directory, fs, dirs, session,
                 db_session, idx, walk, records, result, hist>>

\* organize_all_files that returns the empty result without a message
NoFilesFound_no_message ==
  /\ engine = "organizer"
  /\ pc = "loop"
  /\ files_to_organize = <<>>
  /\ result' = get_results(stats, output_directory)
  /\ pc' = "returned"
  /\ UNCHANGED <<call, previous, racers, engine, input_directory, output_directory, fs, dirs, session,
                 db_session, files_to_organize, idx, walk, stats, records,
                 faults, scan_log, hist>>

\* organize_all_files, lines 282-284: nothing to organize
NoFilesFound ==
  /\ engine = "organizer"
  /\ pc = "loop"
  /\ files_to_organize = <<>>
  /\ stats' = [stats EXCEPT !.errors = Append(@, Message("nofiles", NoPath))]
  /\ result' = get_results(stats', output_directory)
  /\ pc' = "returned"
  /\ UNCHANGED <<call, previous, racers, engine, input_directory, output_directory, fs, dirs, session,
                 db_session, files_to_organize, idx, walk, records, faults,
                 scan_log, hist>>

\* shutil.move that leaves the source file where it was
Move_keeps_source(F, src, dst) ==
  [p \in DOMAIN F \cup {dst} |-> IF p = dst THEN F[src] ELSE F[p]]

\* shutil.move(src, dst) onto a path that does not exist
Move(F, src, dst) ==
  [p \in (DOMAIN F \ {src}) \cup {dst} |-> IF p = dst THEN F[src] ELSE F[p]]

\* the entry of hist for one per-file step: the file, how the step ended, the
\* destination and the counter the placer returned, and which of the names
\* the placer can probe were taken in the target directory when it ran
Step(file, outcome, target, probe, is_duplicate, F, D) ==
  [file |-> file, outcome |-> outcome, target |-> target, probe |-> probe,
   is_duplicate |-> is_duplicate,
   taken |-> IF target = NoPath THEN {}
             ELSE {n \in {file.name} \cup
                         {Suffixed(file.name, k) : k \in 1..(Cardinality(DOMAIN F) + 1)} :
                     Exists(PathOf(target.dir, n), F, D)}]

\* is_duplicate decided on the whole paths
IsDuplicate_whole_path(target_path, file_path) == target_path # file_path

\* organize_file, line 229: the file was renamed by the placer
IsDuplicate(target_path, file_path) == target_path.name # file_path.name

\* FileOrganizer.organize_file for the next file of the list: one call, with
\* the place at which it fails, if it does
OrganizeFile ==
  /\ engine = "organizer"
  /\ pc = "loop"
  /\ idx <= Len(files_to_organize)
  /\ LET file_path == files_to_organize[idx]
         file_type_category == get_file_type_category(file_path.name)
         owner_name == extract_owner_name(file_path.name)
         owner_dir == output_directory \o <<file_type_category, Join(owner_name)>>
         made == dirs \cup Ancestors(owner_dir)
         unique == generate_unique_filename(owner_dir, file_path.name, fs, made)
         target_path == unique.path
         is_duplicate == IsDuplicate(target_path, file_path)
         match == SearchCounter(PathStem(target_path.name))
         duplicate_counter ==
           IF is_duplicate /\ match # <<>> THEN StrToInt(match) ELSE 0
         counted == [stats EXCEPT !.duplicates = IF is_duplicate THEN @ + 1 ELSE @]
         failed(st) ==
           [st EXCEPT !.errors = Append(@, Message("organize", file_path))]
         metadata ==
           [original_path |-> file_path, new_path |-> target_path,
            filename |-> file_path.name,
            file_type |-> Join(Lower(PathSuffix(file_path.name))),
            owner_name |-> Join(owner_name),
            is_duplicate |-> is_duplicate,
            duplicate_counter |-> duplicate_counter]
         log(outcome) ==
           Append(hist, Step(file_path, outcome, target_path, unique.counter,
                             is_duplicate, fs, made))
         injected == /\ faults < MaxFaults
                     /\ faults' = faults + 1
     IN \/ \* file_path.stat() raises
           /\ \/ file_path \notin DOMAIN fs /\ UNCHANGED faults
              \/ file_path \in DOMAIN fs /\ injected
           /\ stats' = failed(stats)
           /\ hist' = Append(hist, Step(file_path, "stat", NoPath, 0, FALSE, fs, dirs))
           /\ UNCHANGED <<fs, dirs, records>>
        \/ \* owner_dir.mkdir raises
           /\ file_path \in DOMAIN fs
           /\ \/ MkdirBlocked(owner_dir, fs) /\ UNCHANGED faults
              \/ ~MkdirBlocked(owner_dir, fs) /\ injected
           /\ stats' = failed(stats)
           /\ hist' = Append(hist, Step(file_path, "mkdir", NoPath, 0, FALSE, fs, dirs))
           /\ UNCHANGED <<fs, dirs, records>>
        \/ \* shutil.move raises
           /\ file_path \in DOMAIN fs
           /\ ~MkdirBlocked(owner_dir, fs)
           /\ injected
           /\ dirs' = made
           /\ stats' = failed(counted)
           /\ hist' = log("move")
           /\ UNCHANGED <<fs, records>>
        \/ \* FileMetadata.objects.create raises
           /\ file_path \in DOMAIN fs
           /\ ~MkdirBlocked(owner_dir, fs)
           /\ injected
           /\ dirs' = made
           /\ fs' = Move(fs, file_path, target_path)
           /\ stats' = failed(counted)
           /\ hist' = log("create")
           /\ UNCHANGED records
        \/ \* the file is organized
           /\ file_path \in DOMAIN fs
           /\ ~MkdirBlocked(owner_dir, fs)
           /\ dirs' = made
           /\ fs' = Move(fs, file_path, target_path)
           /\ records' = Append(records, metadata)
           /\ stats' = [counted EXCEPT
                          !.total_files = @ + 1,
                          !.files_by_type = Incr(@, file_type_category),
                          !.files_by_owner = Incr(@, Join(owner_name))]
           /\ hist' = log("ok")
           /\ UNCHANGED faults
  /\ idx' = idx + 1
  /\ UNCHANGED <<call, previous, racers, engine, input_directory, output_directory, pc, session,
                 db_session, files_to_organize, walk, result, scan_log>>

\* organize_all_files, lines 293-313: the session is updated and saved; when
\* the save raises, the handler marks the session failed and saves again
UpdateSession ==
  /\ engine = "organizer"
  /\ pc = "loop"
  /\ files_to_organize # <<>>
  /\ idx > Len(files_to_organize)
  /\ LET completed == [session EXCEPT
                         !.total_files_processed = stats.total_files,
                         !.status = "completed",
                         !.completed_at = TRUE]
         failed == [completed EXCEPT !.status = "failed", !.error_message = TRUE]
     IN \/ /\ session' = completed
           /\ db_session' = completed
           /\ result' = get_results(stats, output_directory)
           /\ pc' = "returned"
           /\ UNCHANGED <<stats, faults>>
        \/ /\ faults < MaxFaults
           /\ faults' = faults + 1
           /\ session' = failed
           /\ db_session' = failed
           /\ stats' = [stats EXCEPT !.errors = Append(@, Message("failed", NoPath))]
           /\ result' = get_results(stats', output_directory)
           /\ pc' = "returned"
        \/ /\ faults + 1 < MaxFaults
           /\ faults' = faults + 2
           /\ session' = failed
           /\ pc' = "raised"
           /\ UNCHANGED <<db_session, stats, result>>
  /\ UNCHANGED <<call, previous, racers, engine, input_directory, output_directory, fs, dirs,
                 files_to_organize, idx, walk, records, scan_log, hist>>

(***************************************************************************)
(* views.process_files                                                     *)
(***************************************************************************)
\* the fields of models.FileMetadata
FileMetadataFields ==
  {"original_path", "new_path", "filename", "file_type", "file_size",
   "owner_name", "created_at", "moved_at", "is_duplicate", "duplicate_counter"}

\* the keyword arguments process_files passes to FileMetadata.objects.create
ViewsCreateArguments ==
  {"original_path", "new_path", "filename", "file_type", "file_size",
   "owner_name", "created_date", "modified_date", "keywords", "summary",
   "moved_at"}

\* a Django model constructor raises TypeError on a keyword argument that
\* names no field of the model
CreateRaises(arguments) == ~(arguments \subseteq FileMetadataFields)

ViewsResult(kind) == [returned |-> TRUE, kind |-> kind]

\* process_files, lines 38-42: the session row is inserted inside the try
\* block; when the insert fails there is no session to mark
ViewsCreateSession ==
  /\ engine = "views"
  /\ pc = "new"
  /\ \/ /\ session' = NewSession
        /\ db_session' = NewSession
        /\ walk' = [stack |-> <<input_directory>>, root |-> NoDir, files |-> <<>>]
        /\ pc' = "walk"
        /\ UNCHANGED <<faults, result>>
     \/ /\ faults < MaxFaults
        /\ faults' = faults + 1
        /\ result' = ViewsResult("error")
        /\ pc' = "returned"
        /\ UNCHANGED <<session, db_session, walk>>
  /\ UNCHANGED <<call, previous, racers, engine, input_directory, output_directory, fs, dirs,
                 files_to_organize, idx, stats, records, scan_log, hist>>

\* the arrangements of a finite set in a sequence
Orderings(S) ==
  {s \in [1..Cardinality(S) -> S] :
     \A i, j \in 1..Cardinality(S) : i # j => s[i] # s[j]}

\* os.walk(input_path) yields the next directory: it is listed when the walk
\* reaches it, and a directory that cannot be listed is skipped silently
ViewsWalk ==
  /\ engine = "views"
  /\ pc = "walk"
  /\ walk.files = <<>>
  /\ walk.stack # <<>>
  /\ LET top == Head(walk.stack)
         names == {p.name : p \in {q \in DOMAIN fs : q.dir = top}}
         subdirs == {d \in dirs : Len(d) = Len(top) + 1 /\ IsPrefix(top, d)}
     IN \/ /\ top \in dirs
           /\ \E files \in Orderings(names), below \in Orderings(subdirs) :
                /\ \A i, j \in 1..Len(below) :
                     (i < j /\ SourceIndex(below[i]) > 0 /\ SourceIndex(below[j]) > 0)
                       => SourceIndex(below[i]) <= SourceIndex(below[j])
                /\ walk' = [stack |-> below \o Tail(walk.stack), root |-> top,
                         files |-> files]
           /\ UNCHANGED faults
        \/ /\ \/ top \notin dirs /\ UNCHANGED faults
              \/ top \in dirs /\ faults < MaxFaults /\ faults' = faults + 1
           /\ walk' = [stack |-> Tail(walk.stack), root |-> top, files |-> <<>>]
  /\ IF scan_log.done THEN UNCHANGED scan_log
     ELSE scan_log' = [done |-> TRUE,
                       present |-> FilesUnder(input_directory, fs),
                       failure |-> "none"]
  /\ UNCHANGED <<call, previous, racers, engine, input_directory, output_directory, fs, dirs, pc,
                 session, db_session, files_to_organize, idx, stats, records,
                 result, hist>>

\* process_files, lines 170-178: the handler of the outer try block marks the
\* session failed and saves it; a failure of that save reaches the caller.
\* injected is the number of failures injected to get here.
ViewsAbort(marked, injected) ==
  \/ /\ faults + injected <= MaxFaults
     /\ faults' = faults + injected
     /\ session' = marked
     /\ db_session' = marked
     /\ result' = ViewsResult("error")
     /\ pc' = "returned"
  \/ /\ faults + injected + 1 <= MaxFaults
     /\ faults' = faults + injected + 1
     /\ session' = marked
     /\ pc' = "raised"
     /\ UNCHANGED <<db_session, result>>

\* process_files, lines 92-139, for the next file of the directory being
\* walked.  Nothing in the loop body catches an exception, so a failure ends
\* the run in the handler of the outer try block.  The call of
\* FileMetadata.objects.create always fails (CreateRaises), so the statements
\* after it (lines 141-144) are never reached.
ViewsProcessFile ==
  /\ engine = "views"
  /\ pc = "walk"
  /\ walk.files # <<>>
  /\ LET file == Head(walk.files)
         file_path == PathOf(walk.root, file)
         file_ext == Join(Lower(PathSuffix(file)))
         owner_name == views_extract_owner_name(file)
         type_folder == file_type_mappings[file_ext]
         owner_folder == IF owner_name = <<>>
                           THEN output_directory \o <<type_folder>>
                           ELSE output_directory \o <<type_folder, Join(owner_name)>>
         made == dirs \cup Ancestors(owner_folder)
         new_file_path == handle_duplicate_filename(owner_folder, file, fs, made)
         marked == [session EXCEPT !.status = "failed", !.error_message = TRUE,
                                    !.completed_at = TRUE]
         log(outcome) ==
           Append(hist, Step(file_path, outcome, new_file_path, 0,
                             new_file_path.name # file, fs, made))
     IN \/ \* the extension is not in file_type_mappings: the file is left alone
           /\ file_ext \notin DOMAIN file_type_mappings
           /\ hist' = Append(hist, Step(file_path, "skipped", NoPath, 0, FALSE, fs, dirs))
           /\ walk' = [walk EXCEPT !.files = Tail(@)]
           /\ UNCHANGED <<fs, dirs, pc, session, db_session, result, faults>>
        \/ \* os.makedirs raises
           /\ file_ext \in DOMAIN file_type_mappings
           /\ hist' = Append(hist, Step(file_path, "mkdir", NoPath, 0, FALSE, fs, dirs))
           /\ ViewsAbort(marked, IF MkdirBlocked(owner_folder, fs) THEN 0 ELSE 1)
           /\ UNCHANGED <<fs, dirs, walk>>
        \/ \* shutil.move raises
           /\ file_ext \in DOMAIN file_type_mappings
           /\ ~MkdirBlocked(owner_folder, fs)
           /\ dirs' = made
           /\ hist' = log("move")
           /\ ViewsAbort(marked, 1)
           /\ UNCHANGED <<fs, walk>>
        \/ \* the file is moved, then FileMetadata.objects.create raises
           /\ file_ext \in DOMAIN file_type_mappings
           /\ ~MkdirBlocked(owner_folder, fs)
           /\ CreateRaises(ViewsCreateArguments)
           /\ dirs' = made
           /\ fs' = Move(fs, file_path, new_file_path)
           /\ hist' = log("create")
           /\ ViewsAbort(marked, 0)
           /\ UNCHANGED walk
  /\ UNCHANGED <<call, previous, racers, engine, input_directory, output_directory, files_to_organize,
                 idx, scan_log, stats, records>>

\* process_files, lines 146-168: the walk is over; the session is completed
\* and saved (a failure of the CSV export that follows is caught and printed)
ViewsFinish ==
  /\ engine = "views"
  /\ pc = "walk"
  /\ walk.files = <<>>
  /\ walk.stack = <<>>
  /\ LET completed == [session EXCEPT
                         !.total_files_processed = stats.total_files,
                         !.status = "completed",
                         !.completed_at = TRUE]
         marked == [completed EXCEPT !.status = "failed", !.error_message = TRUE]
     IN \/ /\ session' = completed
           /\ db_session' = completed
           /\ result' = ViewsResult("redirect")
           /\ pc' = "returned"
           /\ UNCHANGED faults
        \/ ViewsAbort(marked, 1)
  /\ UNCHANGED <<call, previous, racers, engine, input_directory, output_directory, fs, dirs,
                 files_to_organize, idx, walk, stats, records, scan_log, hist>>

ViewsNext ==
  \/ ViewsCreateSession
  \/ ViewsWalk
  \/ ViewsProcessFile
  \/ ViewsFinish

OrganizerNext ==
  \/ StartSession
  \/ ScanFiles
  \/ NoFilesFound
  \/ OrganizeFile
  \/ UpdateSession

Next == OrganizerNext \/ ViewsNext

Spec == Init /\ [][Next]_vars

\* the runs in which the environment injects no failure
QuietNext ==
  \/ StartSession /\ faults' = faults
  \/ ScanFiles /\ faults' = faults
  \/ NoFilesFound
  \/ OrganizeFile /\ faults' = faults
  \/ UpdateSession /\ faults' = faults
  \/ ViewsCreateSession /\ faults' = faults
  \/ ViewsWalk /\ faults' = faults
  \/ ViewsProcessFile /\ faults' = faults
  \/ ViewsFinish /\ faults' = faults

SpecQuiet == Init /\ [][QuietNext]_vars

\* the runs whose output directory is a sibling of the input directory
InitSibling == Init /\ ~IsPrefix(input_directory, output_directory)

SpecSibling == InitSibling /\ [][Next]_vars

SpecSiblingQuiet == InitSibling /\ [][QuietNext]_vars

(***************************************************************************)
(* Properties                                                              *)
(***************************************************************************)
Last(s) == s[Len(s)]

\* the outcomes of a per-file step that failed
Failures == {"stat", "mkdir", "move", "create"}

\* the steps that created a FileMetadata row; OkSteps[i] created records[i]
OkSteps == SelectSeq(hist, LAMBDA h : h.outcome = "ok")

\* C1: no per-file step overwrites an existing file: the destination does not
\* exist when the file is moved, every file that was in the output tree before
\* the step is still there with the same content after it, and a successful
\* step adds exactly one file to the output tree.
C1_NoStepOverwrites ==
  [][ LET before == FilesUnder(output_directory, fs)
          after == FilesUnder(output_directory, fs')
      IN /\ fs' # fs => ~Exists(Last(hist').target, fs, dirs')
         /\ \A p \in before : p \in DOMAIN fs' /\ fs'[p] = fs[p]
         /\ Len(records') > Len(records) =>
              Cardinality(after) = Cardinality(before) + 1 ]_vars

\* C2: the placer returns target_directory/filename, not a duplicate, counter
\* 0, when that path is free; otherwise stem_k.ext for the smallest k >= 1
\* whose path is free (stem_1.ext .. stem_(k-1).ext are taken), a duplicate,
\* counter k.
C2_PlaceSmallestFreeSuffix ==
  \A i \in 1..Len(hist) :
    LET h == hist[i]
        name == h.file.name
        parts == SplitExt(name)
    IN (engine = "organizer" /\ h.target # NoPath) =>
         /\ h.target.dir = TargetDirectory("organizer", output_directory, name)
         /\ IF name \notin h.taken
              THEN h.target.name = name /\ ~h.is_duplicate /\ h.probe = 0
              ELSE /\ h.probe >= 1
                   /\ h.target.name =
                        parts.name \o <<"_">> \o IntToStr(h.probe) \o parts.ext
                   /\ \A j \in 1..(h.probe - 1) : Suffixed(name, j) \in h.taken
                   /\ h.target.name \notin h.taken
                   /\ h.is_duplicate

\* a run in which the placer returned the plain name once and, with the plain
\* name and stem_1.ext both taken, stem_2.ext another time
C2_Witness ==
  /\ engine = "organizer"
  /\ \E i, j \in 1..Len(hist) :
       /\ hist[i].target # NoPath /\ hist[i].probe = 0
       /\ hist[j].probe = 2 /\ hist[j].is_duplicate
       /\ Suffixed(hist[j].file.name, 1) \in hist[j].taken

\* C3: for every FileRecord, at every later point of the run new_path is an
\* existing file and nothing exists at original_path.
C3_RecordPathsStay ==
  \A i \in 1..Len(records) :
    /\ records[i].new_path \in DOMAIN fs
    /\ records[i].original_path \notin DOMAIN fs

\* C4: a per-file step that fails adds one message to errors, raises nothing
\* to the caller, and leaves the run going (the next file is attempted, the
\* session is not marked failed).
C4_PerFileFailureContained ==
  [][ (Len(hist') > Len(hist) /\ Last(hist').outcome \in Failures) =>
        /\ pc' = pc
        /\ session' = session
        /\ Len(stats'.errors) = Len(stats.errors) + 1 ]_vars

\* C5: the session leaves running exactly once, to completed or failed, with
\* completed_at set, and a run that returns has left it: no session is left
\* running after organize returns, also when the scan found no files.
C5_SessionLeavesRunningOnce ==
  [][ /\ (db_session'.status # db_session.status /\ db_session.status # "none") =>
           /\ db_session.status = "running"
           /\ db_session'.status \in {"completed", "failed"}
           /\ db_session'.completed_at
      /\ (engine = "organizer" /\ pc' = "returned" /\ pc # "returned") =>
           db_session'.status \in {"completed", "failed"} ]_vars

\* C6: is_duplicate of a FileRecord is true exactly when the basename of
\* new_path differs from filename, which is exactly when
\* target_directory/filename existed at placement time and a numeric suffix
\* was applied.
C6_DuplicateIffRenamed ==
  \A i \in 1..Len(records) :
    LET r == records[i]
        h == OkSteps[i]
    IN /\ r.is_duplicate <=> (r.new_path.name # r.filename)
       /\ r.is_duplicate <=>
            /\ r.filename \in h.taken
            /\ \E k \in 1..(Cardinality(h.taken) + 1) :
                 r.new_path.name = Suffixed(r.filename, k)

\* a run that recorded a renamed file and a file that kept its name
C6_Witness ==
  \E i, j \in 1..Len(records) :
    /\ records[i].is_duplicate /\ records[i].filename \in OkSteps[i].taken
    /\ ~records[j].is_duplicate /\ records[j].new_path.name = records[j].filename

\* C7: duplicate_counter of a FileRecord is the suffix k the placer applied,
\* so at least 1 when is_duplicate is true, and 0 when no suffix was applied,
\* whatever the shape of the file name.
C7_CounterIsSuffix ==
  \A i \in 1..Len(records) :
    /\ records[i].duplicate_counter = OkSteps[i].probe
    /\ records[i].is_duplicate => records[i].duplicate_counter >= 1

\* C8: when a run ends with no per-file error, every file that was under
\* input_directory at scan time is in output_directory/category/owner and is
\* no longer at its original location.
C8_AllFilesRelocated ==
  (pc = "returned" /\ \A i \in 1..Len(hist) : hist[i].outcome \notin Failures) =>
    \A p \in scan_log.present :
      /\ p \notin DOMAIN fs
      /\ \E q \in DOMAIN fs :
           /\ fs[q] = p
           /\ q.dir = output_directory \o
                        <<get_file_type_category(p.name),
                          Join(extract_owner_name(p.name))>>

\* C9: in the result organize returns, success is true iff errors is empty,
\* and errors has a message for every per-file failure, for a scan failure
\* and for a run-level failure.
C9_ErrorsComplete ==
  (engine = "organizer" /\ result.returned) =>
    LET kinds(k) == {i \in 1..Len(result.errors) : result.errors[i].kind = k}
    IN /\ result.success <=> (result.errors = <<>>)
       /\ Cardinality(kinds("organize")) =
            Cardinality({i \in 1..Len(hist) : hist[i].outcome \in Failures})
       /\ scan_log.failure # "none" => kinds("scan") \cup kinds("nofiles") # {}
       /\ session.status = "failed" => kinds("failed") # {}

\* C10: when the scan yields no files (the directory is empty or the scan
\* failed), organize returns without raising, moves nothing, and the result
\* has total_files 0, empty files_by_type and files_by_owner, duplicates 0
\* and a 'No files found' message in errors.
C10_EmptyScan ==
  (engine = "organizer" /\ scan_log.done /\ files_to_organize = <<>>) =>
    /\ pc \in {"loop", "returned"}
    /\ pc = "loop" => ENABLED NoFilesFound
    /\ \A p \in DOMAIN fs : fs[p] = p
    /\ hist = <<>> /\ records = <<>>
    /\ pc = "returned" =>
         /\ result.returned
         /\ result.total_files = 0
         /\ DOMAIN result.files_by_type = {}
         /\ DOMAIN result.files_by_owner = {}
         /\ result.duplicates = 0
         /\ \E i \in 1..Len(result.errors) : result.errors[i].kind = "nofiles"

\* a run on files the scan could not reach has returned its empty result
C10_Witness ==
  /\ engine = "organizer"
  /\ pc = "returned"
  /\ files_to_organize = <<>>
  /\ scan_log.failure # "none"
  /\ DOMAIN fs # {}

\* a run of FileOrganizer that returned after a complete scan and with every
\* per-file step successful
CleanRun ==
  /\ engine = "organizer"
  /\ pc = "returned"
  /\ scan_log.failure = "none"
  /\ Len(hist) = Cardinality(scan_log.present)
  /\ \A i \in 1..Len(hist) : hist[i].outcome = "ok"

\* the output tree held no file when the run began
OutputInitiallyEmpty ==
  \A q \in DOMAIN fs : ~IsPrefix(output_directory, fs[q].dir)

\* the scanned files named name, when there are at least two of them and no
\* file of another name is routed to their target directory
SameNameGroup(name) ==
  LET group == {p \in scan_log.present : p.name = name}
      target == TargetDirectory("organizer", output_directory, name)
  IN IF /\ Cardinality(group) >= 2
        /\ \A p \in scan_log.present :
             TargetDirectory("organizer", output_directory, p.name) = target
               => p.name = name
       THEN group ELSE {}

RECURSIVE OrganizeInOrder(_, _)
OrganizeInOrder(order, run) ==
  IF order = <<>> THEN run
  ELSE
    LET file_path == Head(order)
        file_type_category == get_file_type_category(file_path.name)
        owner_name == extract_owner_name(file_path.name)
        owner_dir == output_directory \o <<file_type_category, Join(owner_name)>>
        made == run.dirs \cup Ancestors(owner_dir)
        target_path == generate_unique_filename(owner_dir, file_path.name,
                                                run.fs, made).path
        is_duplicate == IsDuplicate(target_path, file_path)
    IN IF file_path \notin DOMAIN run.fs \/ MkdirBlocked(owner_dir, run.fs)
       THEN OrganizeInOrder(Tail(order),
              [run EXCEPT !.stats.errors = Append(@, Message("organize", file_path))])
       ELSE OrganizeInOrder(Tail(order),
              [fs |-> Move(run.fs, file_path, target_path),
               dirs |-> made,
               stats |-> [run.stats EXCEPT
                            !.duplicates = IF is_duplicate THEN @ + 1 ELSE @,
                            !.total_files = @ + 1,
                            !.files_by_type = Incr(@, file_type_category),
                            !.files_by_owner = Incr(@, Join(owner_name))],
               destinations |-> run.destinations \cup {target_path}])

\* the files and the directories as they were when the run began: every
\* content back at the path it had, the directories the run made left in
\* (no file is ever placed at the path of one of them)
RunStart ==
  [fs |-> [p \in {fs[q] : q \in DOMAIN fs} |-> p],
   dirs |-> dirs,
   stats |-> EmptyStats,
   destinations |-> {}]

\* what a run reports, and where it put the files
Outcome(st, destinations) ==
  [total_files |-> st.total_files,
   files_by_type |-> st.files_by_type,
   files_by_owner |-> st.files_by_owner,
   duplicates |-> st.duplicates,
   destinations |-> destinations]

\* C20: for given input files and a given initial output tree, the result
\* of a run (total_files, files_by_type, files_by_owner, duplicates and the
\* set of destination paths) is the same in whatever order the directory
\* walk delivers the files
C20_OrderIndependent ==
  CleanRun =>
    \A order \in WalkOrders(scan_log.present) :
      LET run == OrganizeInOrder(order, RunStart)
      IN Outcome(run.stats, run.destinations)
           = Outcome(result, {records[i].new_path : i \in 1..Len(records)})

\* the loop run on the files in the order the run took them reports what
\* the run reported
OrganizeInOrderAgrees ==
  CleanRun =>
    LET run == OrganizeInOrder(files_to_organize, RunStart)
    IN /\ Outcome(run.stats, run.destinations)
            = Outcome(result, {records[i].new_path : i \in 1..Len(records)})
       /\ run.fs = fs



(***************************************************************************)
(* A second run on the same directories                                    *)
(***************************************************************************)
\* FileOrganizer(input_directory, output_directory) constructed again after
\* organize_all_files returned: the same two directories, a fresh session
\* and fresh counters; the files are where the first run left them
NewFileOrganizer ==
  /\ engine = "organizer"
  /\ pc = "returned"
  /\ ~previous.returned
  /\ previous' = [returned |-> TRUE, result |-> result, fs |-> fs, steps |-> hist]
  /\ pc' = "new"
  /\ session' = NoSession
  /\ db_session' = NoSession
  /\ files_to_organize' = <<>>
  /\ idx' = 1
  /\ stats' = EmptyStats
  /\ records' = <<>>
  /\ result' = NoResult
  /\ scan_log' = [done |-> FALSE, present |-> {}, failure |-> "none"]
  /\ hist' = <<>>
  /\ UNCHANGED <<call, racers, engine, input_directory, output_directory, fs, dirs,
                 walk, faults>>

AgainNext ==
  \/ QuietNext
  \/ NewFileOrganizer

\* two runs in a row with a sibling output directory, no failure injected
SpecAgain == InitSibling /\ [][AgainNext]_vars

\* the first run ended without a per-file error
FirstRunClean ==
  /\ previous.returned
  /\ \A i \in 1..Len(previous.steps) : previous.steps[i].outcome \notin Failures

\* C29: with the output directory outside the input directory, a second run
\* made right after a run without per-file errors moves no file and leaves
\* the output tree as it was: the files keep their paths and the second run
\* returns total_files = 0
C29_SecondRunMovesNothing ==
  (FirstRunClean /\ ~IsPrefix(input_directory, output_directory)) =>
    /\ fs = previous.fs
    /\ \A i \in 1..Len(hist) : hist[i].outcome \notin {"ok", "create"}
    /\ pc = "returned" => result.total_files = 0

\* a second run has returned after a first run that moved a file
C29_Witness ==
  /\ FirstRunClean
  /\ previous.result.total_files >= 1
  /\ pc = "returned"
  /\ result.total_files = 0
  /\ fs = previous.fs

(***************************************************************************)
(* The counters of a run                                                   *)
(***************************************************************************)
\* sum(d.values())
RECURSIVE SumValues(_)
SumValues(d) ==
  IF DOMAIN d = {} THEN 0
  ELSE LET key == CHOOSE k \in DOMAIN d : TRUE
       IN d[key] + SumValues([k \in DOMAIN d \ {key} |-> d[k]])

\* the per-file steps so far in which shutil.move succeeded
MovedSteps == {i \in 1..Len(hist) : hist[i].outcome \in {"ok", "create"}}

\* the records routed to a category label, and to an owner
RecordsOfType(label) ==
  {i \in 1..Len(records) : get_file_type_category(records[i].filename) = label}

RecordsOfOwner(owner) == {i \in 1..Len(records) : records[i].owner_name = owner}

\* C27: at every point of a run total_files is the number of files moved
\* into the output tree so far, the number of records created so far, the
\* sum of files_by_type and the sum of files_by_owner, and each per-label
\* count is the number of records routed to the label
C27_CountsAgree ==
  /\ stats.total_files = Cardinality(MovedSteps)
  /\ stats.total_files = Len(records)
  /\ stats.total_files = SumValues(stats.files_by_type)
  /\ stats.total_files = SumValues(stats.files_by_owner)
  /\ \A label \in DOMAIN stats.files_by_type :
       stats.files_by_type[label] = Cardinality(RecordsOfType(label))
  /\ \A owner \in DOMAIN stats.files_by_owner :
       stats.files_by_owner[owner] = Cardinality(RecordsOfOwner(owner))

\* C28: at every point of a run the duplicates counter is the number of
\* records created with is_duplicate set, and a per-file step that fails
\* leaves total_files, files_by_type, files_by_owner and duplicates as they
\* were and appends one message to errors
C28_DuplicatesCounted ==
  /\ [](engine = "organizer" =>
          stats.duplicates =
            Cardinality({i \in 1..Len(records) : records[i].is_duplicate}))
  /\ [][ (/\ engine = "organizer"
          /\ Len(hist') > Len(hist)
          /\ Last(hist').outcome \in Failures) =>
           /\ stats'.total_files = stats.total_files
           /\ stats'.files_by_type = stats.files_by_type
           /\ stats'.files_by_owner = stats.files_by_owner
           /\ stats'.duplicates = stats.duplicates
           /\ Len(stats'.errors) = Len(stats.errors) + 1 ]_vars


(***************************************************************************)
(* Two runs on one output directory                                        *)
(***************************************************************************)
\* Each run is at one call of organize_file; the calls share the file system
\* and nothing else, and no lock is taken.  The step is cut where the code
\* goes back to the file system: the stat, the mkdir and the existence probe
\* (lines 222-237), the move (line 241), the record and the counters
\* (lines 244-261).
RacerIds == {1, 2}

RacerStats == [total_files |-> 0, duplicates |-> 0, errors |-> <<>>]

\* the files the two runs are given, under the same or different subfolders,
\* and what the target directory of the family already holds
InitConcurrent ==
  \E family \in Families, choices \in [RacerIds -> {"base", "alike", "other"}],
     second \in 1..2 :
    LET out == InitOutputDirectory(<<"in">>, NoDir)
        folder(i) == Append(<<"in">>, Subfolder(IF i = 1 THEN 1 ELSE second))
        fileOf(i) == PathOf(folder(i), NameOf(family, choices[i]))
        candidates == {PathOf(TargetDirectory("organizer", out, family), family),
                       PathOf(TargetDirectory("organizer", out, family),
                              Suffixed(family, 1))}
    IN \E prior \in SUBSET candidates :
         /\ engine = "organizer"
         /\ input_directory = <<"in">>
         /\ output_directory = out
         /\ fs = [p \in {fileOf(i) : i \in RacerIds} \cup prior |-> p]
         /\ dirs = {<<"in">>} \cup UNION {Ancestors(fileOf(i).dir) : i \in RacerIds}
                     \cup UNION {Ancestors(p.dir) : p \in prior}
         /\ pc = "idle"
         /\ session = NoSession
         /\ db_session = NoSession
         /\ files_to_organize = <<>>
         /\ idx = 1
         /\ walk = [stack |-> <<>>, root |-> NoDir, files |-> <<>>]
         /\ stats = EmptyStats
         /\ records = <<>>
         /\ result = NoResult
         /\ faults = 0
         /\ scan_log = [done |-> FALSE, present |-> {}, failure |-> "none"]
         /\ hist = <<>>
         /\ call = NoCall
         /\ previous = NoRun
         /\ racers = [i \in RacerIds |->
                        [pc |-> "probe", file_path |-> fileOf(i),
                         target_path |-> NoPath, after |-> {},
                         outcome |-> "running", stats |-> RacerStats]]

\* the runs whose move has been made
Moved(R) == {j \in DOMAIN R : R[j].pc \in {"record", "done"} /\ R[j].outcome \in {"running", "ok"}}

RacerFails(i, kind) ==
  racers' = [racers EXCEPT ![i].pc = "done", ![i].outcome = kind,
                           ![i].stats.errors =
                             Append(@, Message("organize", racers[i].file_path))]

\* organize_file up to the move: stat, mkdir, generate_unique_filename and
\* the duplicates counter
RacerProbe(i) ==
  /\ racers # NoRacers
  /\ racers[i].pc = "probe"
  /\ LET file_path == racers[i].file_path
         owner_dir == TargetDirectory("organizer", output_directory, file_path.name)
         made == dirs \cup Ancestors(owner_dir)
         unique == generate_unique_filename(owner_dir, file_path.name, fs, made)
         is_duplicate == IsDuplicate(unique.path, file_path)
     IN \/ \* file_path.stat() or owner_dir.mkdir raises
           /\ file_path \notin DOMAIN fs \/ MkdirBlocked(owner_dir, fs)
           /\ RacerFails(i, "stat")
           /\ UNCHANGED dirs
        \/ /\ file_path \in DOMAIN fs
           /\ ~MkdirBlocked(owner_dir, fs)
           /\ dirs' = made
           /\ racers' = [racers EXCEPT
                           ![i].pc = "move",
                           ![i].target_path = unique.path,
                           ![i].after = Moved(racers) \ {i},
                           ![i].stats.duplicates =
                             IF is_duplicate THEN @ + 1 ELSE @]
  /\ UNCHANGED <<call, previous, engine, input_directory, output_directory, fs, pc,
                 session, db_session, files_to_organize, idx, walk, stats, records,
                 result, faults, scan_log, hist>>

\* shutil.move that raises when the destination exists
RacerMove_refuses_existing(i) ==
  /\ racers # NoRacers
  /\ racers[i].pc = "move"
  /\ \/ /\ \/ racers[i].file_path \notin DOMAIN fs
           \/ racers[i].target_path \in DOMAIN fs
        /\ RacerFails(i, "move")
        /\ UNCHANGED fs
     \/ /\ racers[i].file_path \in DOMAIN fs
        /\ racers[i].target_path \notin DOMAIN fs
        /\ fs' = Move(fs, racers[i].file_path, racers[i].target_path)
        /\ racers' = [racers EXCEPT ![i].pc = "record"]
  /\ UNCHANGED <<call, previous, engine, input_directory, output_directory, dirs, pc,
                 session, db_session, files_to_organize, idx, walk, stats, records,
                 result, faults, scan_log, hist>>

\* shutil.move(str(file_path), str(target_path)): os.rename replaces a file
\* that exists at the destination; a source that is gone raises
RacerMove(i) ==
  /\ racers # NoRacers
  /\ racers[i].pc = "move"
  /\ \/ /\ racers[i].file_path \notin DOMAIN fs
        /\ RacerFails(i, "move")
        /\ UNCHANGED fs
     \/ /\ racers[i].file_path \in DOMAIN fs
        /\ fs' = Move(fs, racers[i].file_path, racers[i].target_path)
        /\ racers' = [racers EXCEPT ![i].pc = "record"]
  /\ UNCHANGED <<call, previous, engine, input_directory, output_directory, dirs, pc,
                 session, db_session, files_to_organize, idx, walk, stats, records,
                 result, faults, scan_log, hist>>

\* FileMetadata.objects.create and the counters: the file is reported as
\* relocated
RacerRecord(i) ==
  /\ racers # NoRacers
  /\ racers[i].pc = "record"
  /\ racers' = [racers EXCEPT ![i].pc = "done", ![i].outcome = "ok",
                              ![i].stats.total_files = @ + 1]
  /\ UNCHANGED <<call, previous, engine, input_directory, output_directory, fs, dirs,
                 pc, session, db_session, files_to_organize, idx, walk, stats,
                 records, result, faults, scan_log, hist>>

ProbeStep == \E i \in RacerIds : RacerProbe(i)

MoveStep == \E i \in RacerIds : RacerMove(i)

RecordStep == \E i \in RacerIds : RacerRecord(i)

ConcurrentNext ==
  \/ ProbeStep
  \/ MoveStep
  \/ RecordStep

SpecConcurrent == InitConcurrent /\ [][ConcurrentNext]_vars

\* the files whose content is nowhere in the file system any more
Lost == {i \in RacerIds : \A p \in DOMAIN fs : fs[p] # racers[i].file_path}

MaxCalls == 2

\* the length of the part of a file name that is drawn freely
MaxTail == 3

run_vars == <<engine, input_directory, output_directory, fs, dirs, pc, session,
              db_session, files_to_organize, idx, walk, stats, records, result,
              faults, scan_log, hist, previous, racers>>

\* no run has been started
Idle ==
  /\ engine = "organizer"
  /\ input_directory = <<"in">>
  /\ output_directory = InitOutputDirectory(<<"in">>, NoDir)
  /\ fs = [p \in {} |-> p]
  /\ dirs = {<<"in">>}
  /\ pc = "idle"
  /\ session = NoSession
  /\ db_session = NoSession
  /\ files_to_organize = <<>>
  /\ idx = 1
  /\ walk = [stack |-> <<>>, root |-> NoDir, files |-> <<>>]
  /\ stats = EmptyStats
  /\ records = <<>>
  /\ result = NoResult
  /\ faults = 0
  /\ scan_log = [done |-> FALSE, present |-> {}, failure |-> "none"]
  /\ hist = <<>>
  /\ previous = NoRun
  /\ racers = NoRacers

\* the strings of at most n characters of an alphabet
Strings(alphabet, n) == UNION {[1..k -> alphabet] : k \in 0..n}

\* one more call on the same arguments, returning value
Returns(value) ==
  /\ Len(call.values) < MaxCalls
  /\ call' = [call EXCEPT !.values = Append(@, value)]
  /\ UNCHANGED run_vars

\* the file names owner inference is called on: nothing, a known owner in
\* some letter case or a near miss of one, then a free tail
OwnerPrefixes ==
  { <<>>, <<"r","o","h","i","t","h">>, <<"S","a","c","h","i","n">>,
    <<"N","I","T","I","N">>, <<"h","i","m","a","n","i">>, <<"r","o","h","i","t">> }

OwnerFileNames ==
  {prefix \o tail : prefix \in OwnerPrefixes,
                    tail \in Strings({"a", "Z", "_", "-", ".", "7"}, MaxTail)}

OwnerCalls ==
  {[fn |-> fn, arg |-> [filename |-> filename], values |-> <<>>] :
     fn \in {"extract_owner_name", "views.extract_owner_name"},
     filename \in OwnerFileNames}

\* FileOrganizer.extract_owner_name(filename)
CallExtractOwnerName ==
  /\ call.fn = "extract_owner_name"
  /\ Returns(extract_owner_name(call.arg.filename))

\* views.extract_owner_name(filename)
CallViewsExtractOwnerName ==
  /\ call.fn = "views.extract_owner_name"
  /\ Returns(views_extract_owner_name(call.arg.filename))

\* what the specification of resolve_owner makes of a returned owner
ResolvedOwner(filename, owner) ==
  LET lowered == Lower(filename)
      known == {k \in 1..Len(KNOWN_OWNERS) : StartsWith(lowered, KNOWN_OWNERS[k])}
      run == LeadingAlpha(filename)
  IN /\ owner # <<>>
     /\ \A j \in 1..Len(owner) : owner[j] \notin DOMAIN UpperToLower
     /\ IF known # {}
          THEN \E k \in known : owner = KNOWN_OWNERS[k]
          ELSE IF run > 0 /\ run < Len(filename) /\ filename[run + 1] \in {"_", "-"}
                 THEN owner = Lower(SubSeq(filename, 1, run))
                 ELSE owner = <<"u","n","k","n","o","w","n">>

\* C12: owner inference returns, for every file name, a non-empty lowercase
\* string: the known owner the lowercased name starts with, whatever else
\* the name holds; otherwise the leading run of letters that is followed by
\* '_' or '-', lowercased; otherwise "unknown".
C12_ResolveOwner ==
  call.fn \in {"extract_owner_name", "views.extract_owner_name"} =>
    \A i \in 1..Len(call.values) :
      ResolvedOwner(call.arg.filename, call.values[i])

\* the keys of FILE_TYPE_MAPPINGS, character by character
Extensions ==
  {
    <<".","p","n","g">>, <<".","j","p","g">>, <<".","j","p","e","g">>, <<".","g","i","f">>,
    <<".","b","m","p">>, <<".","t","i","f","f">>, <<".","w","e","b","p">>, <<".","m","p","4">>,
    <<".","a","v","i">>, <<".","m","o","v">>, <<".","w","m","v">>, <<".","f","l","v">>,
    <<".","w","e","b","m">>, <<".","m","k","v">>, <<".","p","d","f">>, <<".","d","o","c">>,
    <<".","d","o","c","x">>, <<".","t","x","t">>, <<".","r","t","f">>, <<".","c","s","v">>,
    <<".","x","l","s">>, <<".","x","l","s","x">>, <<".","p","p","t">>, <<".","p","p","t","x">>,
    <<".","z","i","p">>, <<".","r","a","r">>, <<".","7","z">>, <<".","t","a","r">>,
    <<".","g","z">>, <<".","m","p","3">>, <<".","w","a","v">>, <<".","f","l","a","c">>,
    <<".","a","a","c">>, <<".","p","y">>, <<".","j","s">>, <<".","h","t","m","l">>,
    <<".","c","s","s">>, <<".","j","a","v","a">>, <<".","c","p","p">>, <<".","c">>,
    <<".","j","s","o","n">>, <<".","x","m","l">>, <<".","s","q","l">> }

\* extensions the table does not hold
UnmappedExtensions ==
  { <<>>, <<".">>, <<".","z","z">>, <<".","p","n">>, <<".","p","n","g","x">>,
    <<".","h","t","m">> }

UpperChar(c) ==
  IF \E u \in DOMAIN UpperToLower : UpperToLower[u] = c
    THEN CHOOSE u \in DOMAIN UpperToLower : UpperToLower[u] = c
    ELSE c

\* str.upper()
Upper(s) == [i \in 1..Len(s) |-> UpperChar(s[i])]

\* the paths classification is called on: a stem followed by an extension
\* written in lower or in upper case; arg.extension is that extension in
\* lower case
ClassifyCalls ==
  UNION
    { {[fn |-> "get_file_type_category",
        arg |-> [file_path |-> stem \o written, extension |-> extension],
        values |-> <<>>] :
         stem \in {<<"f">>, <<"R","o","h","i","t","h","_","a">>, <<".","x">>},
         written \in {extension, Upper(extension)}} :
      extension \in Extensions \cup UnmappedExtensions }

\* FileOrganizer.get_file_type_category(file_path)
CallGetFileTypeCategory ==
  /\ call.fn = "get_file_type_category"
  /\ Returns(get_file_type_category(call.arg.file_path))

\* C13: classification is total and without side effects: for an extension
\* of the static table it returns the table's category, for any other
\* extension, the empty one included, "otherfiles", and the same on every
\* call.
C13_Classify ==
  call.fn = "get_file_type_category" =>
    /\ Idle
    /\ \A i \in 1..Len(call.values) :
         call.values[i] =
           IF Join(call.arg.extension) \in DOMAIN FILE_TYPE_MAPPINGS
             THEN FILE_TYPE_MAPPINGS[Join(call.arg.extension)]
             ELSE "otherfiles"

\* classification was called twice on a name whose extension, written in
\* upper case, is in the table, the catalogue of extensions being the table's
C13_Witness ==
  /\ call.fn = "get_file_type_category"
  /\ Len(call.values) = 2
  /\ Join(call.arg.extension) \in DOMAIN FILE_TYPE_MAPPINGS
  /\ PathSuffix(call.arg.file_path) # call.arg.extension
  /\ {Join(e) : e \in Extensions} = DOMAIN FILE_TYPE_MAPPINGS

(***************************************************************************)
(* text_analysis.extract_text_from_file                                    *)
(*   a file is [readable, parses, bytes, units]: whether it can be opened, *)
(*   whether PyPDF2 / python-docx can decode it, its bytes, and the texts  *)
(*   of its pages or paragraphs                                            *)
(***************************************************************************)
\* the number of bytes, pages or paragraphs of a file
MaxUnits == 2

\* a byte that is not valid UTF-8
Undecodable == "<bad>"

\* what a call gave: an exception, or a returned text
Raised == [raised |-> TRUE, text |-> <<>>]

Returned(text) == [raised |-> FALSE, text |-> text]

\* f.read() of a file opened with encoding='utf-8', errors='ignore'
Decode(bytes) == SelectSeq(bytes, LAMBDA b : b # Undecodable)

\* text += unit + "\n" for each page or paragraph
RECURSIVE UnitsText(_)
UnitsText(units) ==
  IF units = <<>> THEN <<>> ELSE Head(units) \o <<"\n">> \o UnitsText(Tail(units))

\* extract_text_from_file without its except clause
extract_text_from_file_uncaught(file_path, file, PDF_AVAILABLE, DOCX_AVAILABLE) ==
  LET file_ext == Join(Lower(PathSuffix(file_path)))
  IN IF file_ext \in {".txt", ".csv"}
       THEN IF file.readable THEN Returned(Decode(file.bytes)) ELSE Raised
       ELSE IF (file_ext = ".pdf" /\ PDF_AVAILABLE) \/ (file_ext = ".docx" /\ DOCX_AVAILABLE)
              THEN IF file.readable /\ file.parses
                     THEN Returned(UnitsText(file.units)) ELSE Raised
              ELSE Returned(<<>>)

\* text_analysis.extract_text_from_file
extract_text_from_file(file_path, file, PDF_AVAILABLE, DOCX_AVAILABLE) ==
  LET file_ext == Join(Lower(PathSuffix(file_path)))
      body ==
        IF file_ext \in {".txt", ".csv"}
          THEN \* open(..., errors='ignore') and f.read()
               IF file.readable THEN Returned(Decode(file.bytes)) ELSE Raised
          ELSE IF (file_ext = ".pdf" /\ PDF_AVAILABLE)
                    \/ (file_ext = ".docx" /\ DOCX_AVAILABLE)
                 THEN \* PyPDF2.PdfReader / docx.Document and the loop
                      IF file.readable /\ file.parses
                        THEN Returned(UnitsText(file.units)) ELSE Raised
                 ELSE Returned(<<>>)
  IN \* except Exception: return ""
     IF body.raised THEN Returned(<<>>) ELSE body

TextFiles ==
  {[readable |-> r, parses |-> FALSE, bytes |-> b, units |-> <<>>] :
     r \in BOOLEAN, b \in Strings({"a", "\n", Undecodable}, MaxUnits)}

DocumentFiles ==
  {[readable |-> r, parses |-> p, bytes |-> <<"%">>, units |-> u] :
     r \in BOOLEAN, p \in BOOLEAN,
     u \in Strings({<<>>, <<"a">>}, MaxUnits)}

\* the calls of extract_text_from_file: arg.extension is the extension of
\* file_path in lower case
ExtractCalls ==
  UNION
    { {[fn |-> "extract_text_from_file",
        arg |-> [file_path |-> <<"f">> \o written, extension |-> Join(extension),
                 file |-> file, PDF_AVAILABLE |-> pdf, DOCX_AVAILABLE |-> docx],
        values |-> <<>>] :
         written \in {extension, Upper(extension)},
         file \in IF extension \in {<<".","p","d","f">>, <<".","d","o","c","x">>}
                    THEN DocumentFiles ELSE TextFiles,
         pdf \in BOOLEAN, docx \in BOOLEAN} :
      extension \in {<<".","t","x","t">>, <<".","c","s","v">>, <<".","p","d","f">>,
                     <<".","d","o","c","x">>, <<".","d","o","c">>, <<".","p","y">>,
                     <<>>} }

CallExtractTextFromFile ==
  /\ call.fn = "extract_text_from_file"
  /\ Returns(extract_text_from_file(call.arg.file_path, call.arg.file,
                                    call.arg.PDF_AVAILABLE, call.arg.DOCX_AVAILABLE))

\* C14: extraction never raises; it returns the file's text for .txt and
\* .csv, the empty string for an unsupported extension, the empty string for
\* .pdf or .docx when the decoding capability is not available, and the
\* empty string when a read or decode step fails.
C14_ExtractNeverRaises ==
  call.fn = "extract_text_from_file" =>
    \A i \in 1..Len(call.values) :
      LET a == call.arg
          v == call.values[i]
          capable == \/ a.extension = ".pdf" /\ a.PDF_AVAILABLE
                     \/ a.extension = ".docx" /\ a.DOCX_AVAILABLE
      IN /\ ~v.raised
         /\ (a.extension \in {".txt", ".csv"} /\ a.file.readable) =>
              v.text = SelectSeq(a.file.bytes, LAMBDA b : b # Undecodable)
         /\ a.extension \notin {".txt", ".csv", ".pdf", ".docx"} => v.text = <<>>
         /\ (a.extension \in {".pdf", ".docx"} /\ ~capable) => v.text = <<>>
         /\ ~a.file.readable => v.text = <<>>
         /\ (capable /\ ~a.file.parses) => v.text = <<>>

\* extraction returned for a .pdf that PyPDF2, available, could not decode
C14_Witness ==
  /\ call.fn = "extract_text_from_file"
  /\ Len(call.values) >= 1
  /\ call.arg.extension = ".pdf"
  /\ call.arg.PDF_AVAILABLE
  /\ call.arg.file.readable
  /\ ~call.arg.file.parses
  /\ call.arg.file.units # <<>>


\* ---------------------------------------------------------------------
\* extract_keywords
\* ---------------------------------------------------------------------

\* the longest text, in words, extract_keywords is called with
MaxWords == 3

\* what \s matches among the characters used here
WhiteSpace == {" ", "\n", "\t"}

\* what \w matches: letters, digits and the underscore
IsWordChar(c) == IsAlpha(c) \/ IsDigit(c) \/ c = "_"

\* re.sub(r'[^\w\s]', ' ', text.lower())
CleanText(text) ==
  [i \in 1..Len(text) |->
     LET c == LowerChar(text[i])
     IN IF IsWordChar(c) \/ c \in WhiteSpace THEN c ELSE " "]

\* length of the run of non-blank characters s starts with
WordLength(s) ==
  CHOOSE n \in 0..Len(s) :
    /\ \A i \in 1..n : s[i] \notin WhiteSpace
    /\ n = Len(s) \/ s[n + 1] \in WhiteSpace

\* str.split(): the maximal runs of non-blank characters, in order
RECURSIVE SplitWords(_)
SplitWords(s) ==
  IF s = <<>> THEN <<>>
  ELSE IF Head(s) \in WhiteSpace THEN SplitWords(Tail(s))
  ELSE LET n == WordLength(s)
       IN <<SubSeq(s, 1, n)>> \o SplitWords(SubSeq(s, n + 1, Len(s)))

\* the stopword set extract_keywords falls back on
BasicStopWords ==
  {
   "the", "a", "an", "and", "or", "but", "in", "on", "at", "to",
   "for", "of", "with", "by", "is", "are", "was", "were", "be", "been",
   "have", "has", "had", "do", "does", "did", "will", "would", "could", "should",
   "may", "might", "must", "can", "this", "that", "these", "those", "i", "you",
   "he", "she", "it", "we", "they", "me", "him", "her", "us", "them"
  }

\* the keys of Counter(words), in order of first occurrence
RECURSIVE CounterKeys(_)
CounterKeys(words) ==
  IF words = <<>> THEN <<>>
  ELSE LET rest == CounterKeys(SubSeq(words, 1, Len(words) - 1))
           w == words[Len(words)]
       IN IF \E i \in 1..Len(rest) : rest[i] = w THEN rest ELSE Append(rest, w)

\* Counter(words)[w]
CountOf(words, w) == Cardinality({i \in 1..Len(words) : words[i] = w})

\* most_common(1), which returns the first key in every place
RECURSIVE MostCommon_first_key(_, _, _)
MostCommon_first_key(words, keys, n) ==
  IF n <= 0 \/ keys = <<>> THEN <<>>
  ELSE <<keys[1]>> \o MostCommon_first_key(words, Tail(keys), n - 1)

\* Counter.most_common(n): the keys by descending count, equal counts in
\* order of first occurrence, cut to n
RECURSIVE MostCommon(_, _, _)
MostCommon(words, keys, n) ==
  IF n <= 0 \/ keys = <<>> THEN <<>>
  ELSE LET best == CHOOSE i \in 1..Len(keys) :
                     /\ \A j \in 1..Len(keys) :
                          CountOf(words, keys[j]) <= CountOf(words, keys[i])
                     /\ \A j \in 1..(i - 1) :
                          CountOf(words, keys[j]) < CountOf(words, keys[i])
           rest == SubSeq(keys, 1, best - 1) \o SubSeq(keys, best + 1, Len(keys))
       IN <<keys[best]>> \o MostCommon(words, rest, n - 1)

\* separator.join(parts)
RECURSIVE JoinWith(_, _)
JoinWith(parts, separator) ==
  IF parts = <<>> THEN <<>>
  ELSE IF Len(parts) = 1 THEN parts[1]
  ELSE parts[1] \o separator \o JoinWith(Tail(parts), separator)

\* extract_keywords(text, max_keywords); nltk is the state of the optional
\* library: imported or not, its corpus loadable or not, and its word list
extract_keywords(text, max_keywords, nltk) ==
  IF \A i \in 1..Len(text) : text[i] \in WhiteSpace THEN <<>>
  ELSE LET tokens == SplitWords(CleanText(text))
           stop_words == IF nltk.available /\ nltk.corpus
                         THEN nltk.words ELSE BasicStopWords
           words == SelectSeq(tokens,
                      LAMBDA w : Join(w) \notin stop_words /\ Len(w) > 2)
           keywords == MostCommon(words, CounterKeys(words), max_keywords)
       IN JoinWith(keywords, <<",", " ">>)

\* the words texts are made of, each with the tokens it holds: a capitalised
\* stopword, two plain words, one followed by a comma, a short token joined
\* to a long one by a full stop, and a line break
Vocabulary ==
  { [raw |-> <<"T", "h", "e">>, tokens |-> << <<"t", "h", "e">> >>],
    [raw |-> <<"c", "a", "t">>, tokens |-> << <<"c", "a", "t">> >>],
    [raw |-> <<"M", "a", "t", ",">>, tokens |-> << <<"m", "a", "t">> >>],
    [raw |-> <<"o", "x", ".", "C", "d", "e">>, tokens |-> << <<"o", "x">>, <<"c", "d", "e">> >>],
    [raw |-> <<"\n">>, tokens |-> <<>>] }

\* the states of the optional stopword library
NltkStates ==
  { [available |-> FALSE, corpus |-> FALSE, words |-> {}],
    [available |-> TRUE, corpus |-> FALSE, words |-> {}],
    [available |-> TRUE, corpus |-> TRUE, words |-> {"the", "cat"}] }

\* the words of a text joined by single blanks
TextOf(words) == JoinWith([i \in 1..Len(words) |-> words[i].raw], <<" ">>)

KeywordCalls ==
  { [fn |-> "extract_keywords",
     arg |-> [text |-> TextOf(words), words |-> words,
              max_keywords |-> n, nltk |-> nltk],
     values |-> <<>>] :
    words \in Strings(Vocabulary, MaxWords), n \in {1, 2}, nltk \in NltkStates }

CallExtractKeywords ==
  /\ call.fn = "extract_keywords"
  /\ Returns(extract_keywords(call.arg.text, call.arg.max_keywords, call.arg.nltk))

\* the tokens of a text, read off the words it was made of
RECURSIVE TokensOf(_)
TokensOf(words) ==
  IF words = <<>> THEN <<>> ELSE Head(words).tokens \o TokensOf(Tail(words))

\* the text that lists the given tokens separated by a comma and a blank
RECURSIVE Listed(_)
Listed(tokens) ==
  IF tokens = <<>> THEN ""
  ELSE IF Len(tokens) = 1 THEN Join(tokens[1])
  ELSE Join(tokens[1]) \o ", " \o Listed(Tail(tokens))

\* token t ranks before token u in the tokens kept
RanksBefore(kept, t, u) ==
  LET first(w) == CHOOSE i \in 1..Len(kept) :
                    kept[i] = w /\ \A j \in 1..(i - 1) : kept[j] # w
  IN \/ CountOf(kept, t) > CountOf(kept, u)
     \/ CountOf(kept, t) = CountOf(kept, u) /\ first(t) < first(u)

\* C16: extract_keywords(text, N) returns, joined by ", ", at most N distinct
\* tokens of the lowercased text with its punctuation (every character that
\* is neither a letter, a digit, an underscore nor a blank) turned to blanks
\* and split on whitespace; tokens of length <= 2 and stopwords are dropped;
\* the tokens returned are the most frequent ones, by descending frequency,
\* equal frequencies in order of first occurrence; an empty or whitespace-only
\* text gives the empty string
C16_ExtractKeywords ==
  (call.fn = "extract_keywords") =>
    \A k \in 1..Len(call.values) :
      LET a == call.arg
          stop_words == IF a.nltk.available /\ a.nltk.corpus
                        THEN a.nltk.words ELSE BasicStopWords
          kept == SelectSeq(TokensOf(a.words),
                    LAMBDA t : Join(t) \notin stop_words /\ Len(t) > 2)
          distinct == {kept[i] : i \in 1..Len(kept)}
          size == IF Cardinality(distinct) < a.max_keywords
                  THEN Cardinality(distinct) ELSE a.max_keywords
      IN \E out \in [1..size -> distinct] :
           /\ \A i, j \in 1..size : i < j => RanksBefore(kept, out[i], out[j])
           /\ \A t \in distinct :
                (\A i \in 1..size : out[i] # t) =>
                  \A i \in 1..size : RanksBefore(kept, out[i], t)
           /\ Join(call.values[k]) = Listed(out)

\* two keywords were returned for a text with three tokens kept, two of them
\* equally frequent
C16_Witness ==
  /\ call.fn = "extract_keywords"
  /\ Len(call.values) >= 1
  /\ call.arg.max_keywords = 2
  /\ ~call.arg.nltk.available
  /\ Join(call.arg.text) = "cat ox.Cde Mat,"
  /\ Join(call.values[1]) = "cat, cde"


\* ---------------------------------------------------------------------
\* generate_summary
\* ---------------------------------------------------------------------

\* below this many words a text is its own summary
ShortTextWords == 20

\* the length a short text is cut to
ShortTextLimit == 200

\* the length a summary of sentences is cut to
SummaryLimit == 300

\* how many blanks s starts with, and ends with
LeadingBlanks(s) ==
  CHOOSE n \in 0..Len(s) :
    /\ \A i \in 1..n : s[i] \in WhiteSpace
    /\ n = Len(s) \/ s[n + 1] \notin WhiteSpace

TrailingBlanks(s) ==
  CHOOSE n \in 0..Len(s) :
    /\ \A i \in 1..n : s[Len(s) + 1 - i] \in WhiteSpace
    /\ n = Len(s) \/ s[Len(s) - n] \notin WhiteSpace

\* str.strip()
Strip(s) ==
  IF LeadingBlanks(s) = Len(s) THEN <<>>
  ELSE SubSeq(s, 1 + LeadingBlanks(s), Len(s) - TrailingBlanks(s))

\* re.sub(r'\s+', ' ', s)
RECURSIVE CollapseBlanks(_)
CollapseBlanks(s) ==
  IF s = <<>> THEN <<>>
  ELSE IF Head(s) \in WhiteSpace
  THEN <<" ">> \o CollapseBlanks(SubSeq(s, 1 + LeadingBlanks(s), Len(s)))
  ELSE SubSeq(s, 1, WordLength(s))
         \o CollapseBlanks(SubSeq(s, 1 + WordLength(s), Len(s)))

\* text[:limit]
Prefix(text, limit) ==
  SubSeq(text, 1, IF Len(text) < limit THEN Len(text) ELSE limit)

\* text[:limit] + "..." if len(text) > limit else text
Truncated(text, limit) ==
  IF Len(text) > limit THEN Prefix(text, limit) \o <<".", ".", ".">> ELSE text

\* re.sub(r'\s+', ' ', text.strip())
CleanSummaryText(text) == CollapseBlanks(Strip(text))

\* length of the run of characters, none ending a sentence, s starts with
SentenceLength(s) ==
  CHOOSE n \in 0..Len(s) :
    /\ \A i \in 1..n : s[i] \notin {".", "!", "?"}
    /\ n = Len(s) \/ s[n + 1] \in {".", "!", "?"}

\* re.split(r'[.!?]+', text), each piece stripped, the empty ones dropped
RECURSIVE BasicSentences(_)
BasicSentences(text) ==
  IF text = <<>> THEN <<>>
  ELSE LET n == SentenceLength(text)
           piece == Strip(SubSeq(text, 1, n))
           rest == BasicSentences(SubSeq(text, n + 2, Len(text)))
       IN IF piece = <<>> THEN rest ELSE <<piece>> \o rest

\* generate_summary(text, max_sentences); sumy and nltk are the states of
\* the optional libraries: imported or not, raising or not, and what they
\* return
generate_summary(text, max_sentences, sumy, nltk) ==
  IF \A i \in 1..Len(text) : text[i] \in WhiteSpace THEN <<>>
  ELSE
    LET clean == CleanSummaryText(text)
        fallback == Truncated(clean, ShortTextLimit)
        sentences == IF nltk.available THEN <<clean>> ELSE BasicSentences(clean)
        picked == IF Len(sentences) >= 2
                  THEN sentences[1] \o <<" ">> \o sentences[Len(sentences)]
                  ELSE sentences[1]
    IN IF Len(SplitWords(clean)) < ShortTextWords THEN fallback
       ELSE IF sumy.available /\ ~sumy.raises
       THEN (IF sumy.summary # <<>> THEN sumy.summary
             ELSE Prefix(clean, SummaryLimit) \o <<".", ".", ".">>)
       ELSE IF nltk.available /\ nltk.raises THEN fallback
       ELSE IF Len(sentences) <= max_sentences THEN clean
       ELSE IF sentences = <<>> THEN fallback
       ELSE Truncated(picked, SummaryLimit)

\* count copies of a word
Copies(word, count) == [i \in 1..count |-> word]

\* a word of the given length
WordOfLength(n) == [i \in 1..n |-> "a"]

\* the texts summarised: how many words, of what length, ending in what
SummaryShapes ==
  { [count |-> 0, length |-> 0, stop |-> <<>>],
    [count |-> 1, length |-> 1, stop |-> <<>>],
    [count |-> 1, length |-> 200, stop |-> <<>>],
    [count |-> 1, length |-> 201, stop |-> <<>>],
    [count |-> 2, length |-> 100, stop |-> <<>>],
    [count |-> 2, length |-> 1, stop |-> <<".">>],
    [count |-> 19, length |-> 1, stop |-> <<>>],
    [count |-> 19, length |-> 11, stop |-> <<>>],
    [count |-> 20, length |-> 1, stop |-> <<>>],
    [count |-> 20, length |-> 1, stop |-> <<"!">>],
    [count |-> 20, length |-> 16, stop |-> <<"?">>],
    [count |-> 20, length |-> 16, stop |-> <<>>] }

\* the blanks between two words, and around the text
Separators == {<<" ">>, <<"\n", " ">>}

Margins == {<<>>, <<" ">>}

SumyStates ==
  { [available |-> FALSE, raises |-> FALSE, summary |-> <<>>],
    [available |-> TRUE, raises |-> TRUE, summary |-> <<>>],
    [available |-> TRUE, raises |-> FALSE, summary |-> <<>>],
    [available |-> TRUE, raises |-> FALSE, summary |-> <<"a", ".">>] }

SentenceStates ==
  { [available |-> FALSE, raises |-> FALSE],
    [available |-> TRUE, raises |-> TRUE],
    [available |-> TRUE, raises |-> FALSE] }

\* the library states a text is summarised under: all of them where the
\* libraries are consulted, the two extremes where they are not
LibraryStates(shape) ==
  IF shape.count >= ShortTextWords
  THEN SumyStates \X SentenceStates \X {0, 3}
  ELSE { <<[available |-> FALSE, raises |-> FALSE, summary |-> <<>>],
           [available |-> FALSE, raises |-> FALSE], 3>>,
         <<[available |-> TRUE, raises |-> FALSE, summary |-> <<"a", ".">>],
           [available |-> TRUE, raises |-> FALSE], 3>> }

SummaryCalls ==
  UNION { { [fn |-> "generate_summary",
       arg |-> [text |-> margin
                       \o JoinWith(Copies(WordOfLength(shape.length) \o shape.stop,
                                          shape.count), separator)
                       \o margin,
              words |-> shape.count, max_sentences |-> libs[3],
              sumy |-> libs[1], nltk |-> libs[2]],
     values |-> <<>>] :
    separator \in Separators, margin \in Margins, libs \in LibraryStates(shape) } :
    shape \in SummaryShapes }

CallGenerateSummary ==
  /\ call.fn = "generate_summary"
  /\ Returns(generate_summary(call.arg.text, call.arg.max_sentences,
                              call.arg.sumy, call.arg.nltk))

\* C17: generate_summary on a text of fewer than 20 words returns the text
\* itself when it has at most 200 characters, and otherwise its first 200
\* characters followed by an ellipsis
C17_ShortTextVerbatim ==
  (call.fn = "generate_summary" /\ call.arg.words < ShortTextWords) =>
    \A k \in 1..Len(call.values) :
      call.values[k] =
        IF Len(call.arg.text) <= ShortTextLimit THEN call.arg.text
        ELSE SubSeq(call.arg.text, 1, ShortTextLimit) \o <<".", ".", ".">>


\* ---------------------------------------------------------------------
\* CSV analysis
\* ---------------------------------------------------------------------

\* the most data lines a CSV file is given beyond its block of full rows
MaxRows == 2

\* sub in s
Contains(s, sub) ==
  \E i \in 0..(Len(s) - Len(sub)) : SubSeq(s, i + 1, i + Len(sub)) = sub

\* the column-name patterns of get_pii_columns
pii_patterns ==
  { <<"c", "u", "s", "t", "o", "m", "e", "r", "_", "n", "a", "m", "e">>,
    <<"c", "l", "i", "e", "n", "t", "_", "n", "a", "m", "e">>,
    <<"u", "s", "e", "r", "_", "n", "a", "m", "e">>,
    <<"f", "i", "r", "s", "t", "_", "n", "a", "m", "e">>,
    <<"l", "a", "s", "t", "_", "n", "a", "m", "e">>,
    <<"f", "u", "l", "l", "_", "n", "a", "m", "e">>,
    <<"e", "m", "a", "i", "l">>,
    <<"e", "m", "a", "i", "l", "_", "a", "d", "d", "r", "e", "s", "s">>,
    <<"e", "_", "m", "a", "i", "l">>, <<"p", "h", "o", "n", "e">>,
    <<"p", "h", "o", "n", "e", "_", "n", "u", "m", "b", "e", "r">>,
    <<"t", "e", "l", "e", "p", "h", "o", "n", "e">>,
    <<"m", "o", "b", "i", "l", "e">>, <<"c", "e", "l", "l">>,
    <<"a", "d", "d", "r", "e", "s", "s">>,
    <<"s", "t", "r", "e", "e", "t", "_", "a", "d", "d", "r", "e", "s", "s">>,
    <<"h", "o", "m", "e", "_", "a", "d", "d", "r", "e", "s", "s">>,
    <<"b", "i", "l", "l", "i", "n", "g", "_", "a", "d", "d", "r", "e", "s", "s">>,
    <<"s", "h", "i", "p", "p", "i", "n", "g", "_", "a", "d", "d", "r", "e", "s", "s">>,
    <<"s", "s", "n">>,
    <<"s", "o", "c", "i", "a", "l", "_", "s", "e", "c", "u", "r", "i", "t", "y">>,
    <<"t", "a", "x", "_", "i", "d">>,
    <<"n", "a", "t", "i", "o", "n", "a", "l", "_", "i", "d">>,
    <<"c", "r", "e", "d", "i", "t", "_", "c", "a", "r", "d">>,
    <<"c", "a", "r", "d", "_", "n", "u", "m", "b", "e", "r">>,
    <<"a", "c", "c", "o", "u", "n", "t", "_", "n", "u", "m", "b", "e", "r">>,
    <<"d", "o", "b">>,
    <<"d", "a", "t", "e", "_", "o", "f", "_", "b", "i", "r", "t", "h">>,
    <<"b", "i", "r", "t", "h", "_", "d", "a", "t", "e">>,
    <<"a", "g", "e">>, <<"p", "a", "s", "s", "p", "o", "r", "t">>,
    <<"l", "i", "c", "e", "n", "s", "e">>,
    <<"d", "r", "i", "v", "e", "r", "s", "_", "l", "i", "c", "e", "n", "s", "e">>,
    <<"i", "p", "_", "a", "d", "d", "r", "e", "s", "s">>,
    <<"m", "a", "c", "_", "a", "d", "d", "r", "e", "s", "s">>,
    <<"u", "s", "e", "r", "n", "a", "m", "e">>,
    <<"l", "o", "g", "i", "n">>, <<"u", "s", "e", "r", "_", "i", "d">> }

additional_pii_patterns ==
  { <<"n", "a", "m", "e">> }

non_pii_patterns ==
  { <<"p", "r", "o", "d", "u", "c", "t", "_", "n", "a", "m", "e">>,
    <<"i", "t", "e", "m", "_", "n", "a", "m", "e">>,
    <<"s", "e", "r", "v", "i", "c", "e", "_", "n", "a", "m", "e">>,
    <<"c", "a", "t", "e", "g", "o", "r", "y", "_", "n", "a", "m", "e">>,
    <<"p", "r", "o", "d", "u", "c", "t">>,
    <<"p", "u", "r", "c", "h", "a", "s", "e", "_", "d", "a", "t", "e">>,
    <<"o", "r", "d", "e", "r", "_", "d", "a", "t", "e">>,
    <<"c", "r", "e", "a", "t", "e", "d", "_", "d", "a", "t", "e">>,
    <<"u", "p", "d", "a", "t", "e", "d", "_", "d", "a", "t", "e">>,
    <<"d", "a", "t", "e">>, <<"r", "e", "g", "i", "o", "n">>,
    <<"l", "o", "c", "a", "t", "i", "o", "n">>, <<"c", "i", "t", "y">>,
    <<"s", "t", "a", "t", "e">>, <<"c", "o", "u", "n", "t", "r", "y">>,
    <<"s", "t", "a", "t", "u", "s">>, <<"t", "y", "p", "e">>,
    <<"c", "a", "t", "e", "g", "o", "r", "y">>,
    <<"d", "e", "s", "c", "r", "i", "p", "t", "i", "o", "n">>,
    <<"r", "e", "p">>, <<"s", "a", "l", "e", "s", "_", "r", "e", "p">> }

\* the columns whose values are tested for a first and a last name
name_columns ==
  { <<"c", "u", "s", "t", "o", "m", "e", "r", "_", "n", "a", "m", "e">>,
    <<"c", "l", "i", "e", "n", "t", "_", "n", "a", "m", "e">>,
    <<"u", "s", "e", "r", "_", "n", "a", "m", "e">>,
    <<"f", "i", "r", "s", "t", "_", "n", "a", "m", "e">>,
    <<"l", "a", "s", "t", "_", "n", "a", "m", "e">>,
    <<"f", "u", "l", "l", "_", "n", "a", "m", "e">>,
    <<"s", "a", "l", "e", "s", "_", "r", "e", "p">>,
    <<"c", "o", "n", "t", "a", "c", "t", "_", "p", "e", "r", "s", "o", "n">> }

\* value consists of digits only
DigitsOnly(value) == \A i \in 1..Len(value) : IsDigit(value[i])

\* value starts as the shape says: "d" stands for a digit, "s" for a blank
\* or a hyphen, any other character for itself
MatchesShape(value, shape) ==
  /\ Len(value) >= Len(shape)
  /\ \A i \in 1..Len(shape) :
       CASE shape[i] = "d" -> IsDigit(value[i])
         [] shape[i] = "s" -> value[i] \in WhiteSpace \cup {"-"}
         [] OTHER -> value[i] = shape[i]

\* re.match(r'^-?\d+\.?\d*$', value)
IsNumber(value) ==
  LET u == IF value # <<>> /\ value[1] = "-" THEN Tail(value) ELSE value
  IN \E n \in 1..Len(u) :
       /\ DigitsOnly(SubSeq(u, 1, n))
       /\ \/ n = Len(u)
          \/ u[n + 1] = "." /\ DigitsOnly(SubSeq(u, n + 2, Len(u)))

\* re.match(r'\d{4}-\d{2}-\d{2}|\d{2}/\d{2}/\d{4}|\d{2}-\d{2}-\d{4}', value)
IsDate(value) ==
  \/ MatchesShape(value, <<"d", "d", "d", "d", "-", "d", "d", "-", "d", "d">>)
  \/ MatchesShape(value, <<"d", "d", "/", "d", "d", "/", "d", "d", "d", "d">>)
  \/ MatchesShape(value, <<"d", "d", "-", "d", "d", "-", "d", "d", "d", "d">>)

\* re.match(r'^[a-zA-Z0-9._%+-]+@[a-zA-Z0-9.-]+\.[a-zA-Z]{2,}$', value)
IsEmail(value) ==
  \E at \in 2..Len(value), dot \in 3..(Len(value) - 2) :
    /\ at + 1 < dot
    /\ value[at] = "@"
    /\ value[dot] = "."
    /\ \A i \in 1..(at - 1) :
         IsAlpha(value[i]) \/ IsDigit(value[i])
           \/ value[i] \in {".", "_", "%", "+", "-"}
    /\ \A i \in (at + 1)..(dot - 1) :
         IsAlpha(value[i]) \/ IsDigit(value[i]) \/ value[i] \in {".", "-"}
    /\ \A i \in (dot + 1)..Len(value) : IsAlpha(value[i])

\* re.match(r'[\+]?[1-9]?[0-9]{7,15}$', re.sub(r'[^\d+]', '', value))
IsPhone(value) ==
  LET kept == SelectSeq(value, LAMBDA c : IsDigit(c) \/ c = "+")
      digits == IF kept # <<>> /\ kept[1] = "+" THEN Tail(kept) ELSE kept
  IN /\ DigitsOnly(digits)
     /\ \/ Len(digits) \in 7..15
        \/ Len(digits) = 16 /\ digits[1] # "0"

\* re.match(r'\d{3}-\d{2}-\d{4}', value)
IsSsn(value) ==
  MatchesShape(value, <<"d", "d", "d", "-", "d", "d", "-", "d", "d", "d", "d">>)

\* re.match(r'\d{4}[\s-]?\d{4}[\s-]?\d{4}[\s-]?\d{4}', value)
IsCreditCard(value) ==
  LET four == <<"d", "d", "d", "d">>
      gaps == {<<>>, <<"s">>}
  IN \E a \in gaps, b \in gaps, c \in gaps :
       MatchesShape(value, four \o a \o four \o b \o four \o c \o four)

\* re.match(r'^[A-Z][a-z]+\s+[A-Z][a-z]+$', value)
IsFullName(value) ==
  LET words == SplitWords(value)
      capitalised(w) ==
        /\ Len(w) >= 2
        /\ w[1] \in DOMAIN UpperToLower
        /\ \A i \in 2..Len(w) : w[i] \in LowerLetters
  IN /\ Len(words) = 2
     /\ value[1] \notin WhiteSpace
     /\ value[Len(value)] \notin WhiteSpace
     /\ capitalised(words[1])
     /\ capitalised(words[2])

\* the rows analyze_csv_data_structure reads at most
RowLimit == 1000

\* the values a column keeps as samples
SampleLimit == 5

\* line.strip() on a line of cells: blanks go from the front of the first
\* cell and from the back of the last one; a line left empty has no cells
StripLine(cells) ==
  LET n == Len(cells)
      stripped ==
        [k \in 1..n |->
           LET front == IF k = 1
                        THEN SubSeq(cells[k], 1 + LeadingBlanks(cells[k]), Len(cells[k]))
                        ELSE cells[k]
           IN IF k = n
              THEN SubSeq(front, 1, Len(front) - TrailingBlanks(front))
              ELSE front]
  IN IF stripped = << <<>> >> THEN <<>> ELSE stripped

\* headers = next(csv.reader(sample_lines)): the cells of the stripped first line
CsvHeaders(file) == StripLine(file.lines[1])

\* row.get(col, '') on a row of csv.DictReader: the cell under the last field
\* named col; '' when no field has the name; None, on which .strip() raises,
\* when the row is too short to reach the field
NoField == [missing |-> FALSE, value |-> <<>>]

RowGet(fieldnames, row, col) ==
  LET named == {i \in 1..Len(fieldnames) : fieldnames[i] = col}
      last == CHOOSE i \in named : \A j \in named : j <= i
  IN IF named = {} THEN NoField
     ELSE IF last > Len(row) THEN [missing |-> TRUE, value |-> <<>>]
     ELSE [missing |-> FALSE, value |-> Strip(row[last])]

\* the loop over rows and columns: the cells read in order, up to the first
\* one whose .strip() raises
ReadCells(fieldnames, headers, rows, cells) ==
  LET width == Len(headers)
      got(r, k) == RowGet(fieldnames, rows[r], headers[k])
      bad_rows == {r \in 1..Len(rows) : \E k \in 1..width : got(r, k).missing}
      stop_row == IF bad_rows = {} THEN Len(rows) + 1
                  ELSE CHOOSE r \in bad_rows : \A q \in bad_rows : r <= q
      stop_col == IF bad_rows = {} THEN 1
                  ELSE CHOOSE k \in 1..width :
                         /\ got(stop_row, k).missing
                         /\ \A j \in 1..(k - 1) : ~got(stop_row, j).missing
      count == (stop_row - 1) * width + (stop_col - 1)
      read == [i \in 1..count |->
                 LET r == ((i - 1) \div width) + 1
                     k == ((i - 1) % width) + 1
                 IN [col |-> headers[k], value |-> got(r, k).value]]
  IN [failed |-> bad_rows # {}, cells |-> cells \o read]

\* the values read for a column, in order
ValuesOf(cells, col) ==
  LET mine == SelectSeq(cells, LAMBDA c : c.col = col)
  IN [i \in 1..Len(mine) |-> mine[i].value]

\* the column names of money amounts, and those of identifiers
MoneyColumns == {"price", "amount", "cost", "total", "sum", "value", "salary", "income"}

IdColumns == {"id", "customer_id", "user_id", "order_id", "product_id"}

\* detect_data_type with the phone test made before the numeric one
detect_data_type_phone_first(column_name, value) ==
  LET col_lower == Join(Lower(column_name))
  IN IF IsPhone(value) THEN "phone"
     ELSE IF IsNumber(value)
     THEN (IF col_lower \in MoneyColumns THEN "currency" ELSE "numeric")
     ELSE IF IsDate(value) THEN "date"
     ELSE IF IsEmail(value) THEN "email"
     ELSE IF col_lower \in IdColumns THEN "id"
     ELSE "text"

\* detect_data_type: the type a non-empty value gives its column
detect_data_type(column_name, value) ==
  LET col_lower == Join(Lower(column_name))
  IN IF IsNumber(value)
     THEN (IF col_lower \in MoneyColumns THEN "currency" ELSE "numeric")
     ELSE IF IsDate(value) THEN "date"
     ELSE IF IsEmail(value) THEN "email"
     ELSE IF IsPhone(value) THEN "phone"
     ELSE IF col_lower \in IdColumns THEN "id"
     ELSE "text"

\* analyze_csv_data_structure(file_path, headers): DictReader takes its field
\* names from the first line as written and skips empty lines; total_rows is
\* set only when the loop ends without an exception
analyze_csv_data_structure(file, headers) ==
  LET fieldnames == file.lines[1]
      data == SelectSeq(Tail(file.lines), LAMBDA row : row # <<>>)
      sampled == SubSeq(data, 1, IF Len(data) < RowLimit THEN Len(data) ELSE RowLimit)
      read == ReadCells(fieldnames, headers, sampled, <<>>)
      filled(col) == SelectSeq(ValuesOf(read.cells, col), LAMBDA v : v # <<>>)
  IN [total_rows |-> IF read.failed THEN 0
                     ELSE IF Len(data) > RowLimit THEN RowLimit + 1 ELSE Len(data),
      columns |->
        [k \in 1..Len(headers) |->
           LET col == headers[k]
           IN [name |-> col,
               sample_values |-> Prefix(filled(col), SampleLimit),
               data_type |-> IF filled(col) = <<>> THEN "text"
                             ELSE detect_data_type(col, filled(col)[Len(filled(col))]),
               types |-> LET values == filled(col)
                         IN {detect_data_type(col, values[i]) :
                               i \in 1..Len(values)},
               null_count |-> Len(ValuesOf(read.cells, col)) - Len(filled(col))]]]

\* the tests get_pii_columns makes on a sampled value
IsPiiValue(col_lower, value) ==
  \/ IsEmail(value)
  \/ IsPhone(value)
  \/ IsSsn(value)
  \/ IsCreditCard(value)
  \/ IsFullName(value) /\ \E word \in name_columns : Contains(col_lower, word)

\* get_pii_columns(headers, analysis), as the set of the columns named
get_pii_columns(headers, analysis) ==
  { analysis.columns[k].name : k \in
      { k \in 1..Len(headers) :
          LET col_lower == Lower(headers[k])
              samples == analysis.columns[k].sample_values
          IN IF \E p \in non_pii_patterns : Contains(col_lower, p) THEN FALSE
             ELSE IF \E p \in pii_patterns : Contains(col_lower, p) THEN TRUE
             ELSE IF \E p \in additional_pii_patterns : Contains(col_lower, p) THEN TRUE
             ELSE \E i \in 1..Len(samples) :
                    samples[i] # <<>> /\ IsPiiValue(col_lower, samples[i]) } }

\* the share of missing values above which a column is a quality issue, in
\* per cent
NullPercentageLimit == 10

\* null_percentage > 10, where null_percentage is
\* (null_count / total_rows) * 100 if total_rows > 0 else 0
IsQualityIssue(null_count, total_rows) ==
  total_rows > 0 /\ null_count * 100 > NullPercentageLimit * total_rows

\* generate_csv_summary(file_path, headers, analysis): what the report says,
\* part by part (the title line, the owner and the wording are left out)
generate_csv_summary(headers, analysis) ==
  LET pii_columns == get_pii_columns(headers, analysis)
      typed(t) == {analysis.columns[k].name :
                     k \in {k \in 1..Len(headers) : t \in analysis.columns[k].types}}
  IN [kind |-> "report",
      total_rows |-> analysis.total_rows,
      total_fields |-> Len(headers),
      pii_columns |-> pii_columns,
      columns |-> [k \in 1..Len(headers) |->
                     [name |-> headers[k],
                      data_type |-> analysis.columns[k].data_type,
                      sample_values |-> Prefix(analysis.columns[k].sample_values, 3),
                      is_pii |-> headers[k] \in pii_columns]],
      numeric_columns |-> typed("currency") \cup typed("numeric"),
      date_columns |-> typed("date"),
      email_columns |-> typed("email"),
      phone_columns |-> typed("phone"),
      quality_issues |->
        SelectSeq([k \in 1..Len(headers) |->
                     [name |-> headers[k],
                      null_count |-> analysis.columns[k].null_count]],
                  LAMBDA c : IsQualityIssue(c.null_count, analysis.total_rows))]


\* s.replace(old, new) for single characters
ReplaceChar(s, old, new) == [i \in 1..Len(s) |-> IF s[i] = old THEN new ELSE s[i]]

\* s.split(', ')
RECURSIVE SplitList(_)
SplitList(s) ==
  LET cuts == {i \in 1..(Len(s) - 1) : s[i] = "," /\ s[i + 1] = " "}
  IN IF cuts = {} THEN <<s>>
     ELSE LET cut == CHOOSE i \in cuts : \A j \in cuts : i <= j
          IN <<SubSeq(s, 1, cut - 1)>> \o SplitList(SubSeq(s, cut + 2, Len(s)))

\* what f.read() gives for a CSV file: its lines, cells joined by commas
CsvContent(file) ==
  JoinWith([i \in 1..Len(file.lines) |-> JoinWith(file.lines[i], <<",">>)], <<"\n">>)

\* the keywords every CSV file is given
CsvTerms ==
  { <<"d", "a", "t", "a">>,
    <<"t", "a", "b", "l", "e">>,
    <<"d", "a", "t", "a", "s", "e", "t">>,
    <<"r", "e", "c", "o", "r", "d", "s">>,
    <<"i", "n", "f", "o", "r", "m", "a", "t", "i", "o", "n">> }

\* a keyword string known only up to the order of a set: some at_most of
\* the words any_of, all of them when there are no more
AnyKeywords(any_of, at_most) == [kind |-> "any", any_of |-> any_of, at_most |-> at_most]

\* a keyword string known in full
Keywords(text) == [kind |-> "text", text |-> text]

\* extract_keywords_from_csv(file_path, headers): ', '.join(list(set(keywords))[:10])
extract_keywords_from_csv(file, headers, nltk) ==
  LET names == {ReplaceChar(Lower(headers[k]), "_", " ") : k \in 1..Len(headers)}
      content_keywords == extract_keywords(CsvContent(file), 5, nltk)
      found == IF content_keywords # <<>>
               THEN {SplitList(content_keywords)[i] :
                       i \in 1..Len(SplitList(content_keywords))}
               ELSE {}
  IN AnyKeywords(names \cup CsvTerms \cup found, 10)

\* an empty summary string, and the summary analyze_csv_file makes of an
\* exception
EmptySummary == [kind |-> "empty"]

ErrorSummary(exception) ==
  [kind |-> "error", text |-> <<"Error analyzing CSV file: ", exception>>]

\* analyze_csv_file(file_path)
analyze_csv_file(file, nltk) ==
  IF ~file.readable
  THEN \* open raises, except Exception returns
       [keywords |-> Keywords(<<>>), summary |-> ErrorSummary("Permission denied")]
  ELSE IF file.lines = <<>>
  THEN [keywords |-> Keywords(<<>>), summary |-> EmptySummary]
  ELSE LET headers == CsvHeaders(file)
           data_analysis == analyze_csv_data_structure(file, headers)
       IN [keywords |-> extract_keywords_from_csv(file, headers, nltk),
           summary |-> generate_csv_summary(headers, data_analysis)]

\* the header and the values of the order table
OrderHeader == <<<<"c", "u", "s", "t", "o", "m", "e", "r", "_", "e", "m", "a", "i", "l">>,
     <<"o", "r", "d", "e", "r", "_", "d", "a", "t", "e">>,
     <<"a", "m", "o", "u", "n", "t">>>>

Emails == { <<"x", "@", "y", ".", "c", "o">> }

Dates == { <<"2", "0", "2", "4", "-", "0", "1", "-", "0", "5">>, <<"0", "1", "/", "0", "5", "/", "2", "0", "2", "4">> }

Amounts == { <<"5">>, <<"-", "1", "2", ".", "5", "0">>, <<"1", "2", "3", "4", "5", "6", "7">>, <<"1", "2", "3", "4", "5", "6", "7", ".", "8", "9">> }

OrderRows == {<<e, d, a>> : e \in Emails, d \in Dates, a \in Amounts}

OrderFiles ==
  { [readable |-> TRUE, lines |-> <<OrderHeader>> \o rows] :
    rows \in Strings(OrderRows, MaxRows) }

\* tables of two columns: a block of full rows followed by rows with an
\* empty cell, a blank cell, a cell missing, a cell too many, and empty
\* lines; the header line as such or with a blank before it
FullRow == <<<<"1">>, <<"2">>>>

OddRows == { <<<<>>, <<"2">>>>, <<<<"1">>, <<" ">>>>, <<<<"3">>>>, <<<<"1">>, <<"2">>, <<"9">>>>, <<>> }

TableHeaders == { <<<<"a">>, <<"b">>>>, <<<<" ", "a">>, <<"b">>>> }

TableFiles ==
  { [readable |-> TRUE, lines |-> <<header>> \o Copies(FullRow, full) \o rows] :
    header \in TableHeaders, full \in {0, 8, 9}, rows \in Strings(OddRows, MaxRows) }

\* a file that cannot be opened, and one without a line
BrokenCsvFiles ==
  { [readable |-> FALSE, lines |-> <<OrderHeader>>],
    [readable |-> TRUE, lines |-> <<>>] }

CsvCalls ==
  { [fn |-> "analyze_csv_file",
     arg |-> [file |-> file, nltk |-> nltk],
     values |-> <<>>] :
    file \in OrderFiles \cup TableFiles \cup BrokenCsvFiles, nltk \in NltkStates }

CallAnalyzeCsvFile ==
  /\ call.fn = "analyze_csv_file"
  /\ Returns(analyze_csv_file(call.arg.file, call.arg.nltk))

\* the data lines of a file that are sampled
SampledRows(file) ==
  LET data == SelectSeq(Tail(file.lines), LAMBDA r : r # <<>>)
  IN SubSeq(data, 1, IF Len(data) < RowLimit THEN Len(data) ELSE RowLimit)

\* C18: for the header customer_email, order_date, amount the analyzer
\* reports customer_email as PII and neither order_date nor amount,
\* whatever the sampled values, order_date holding dates and amount numbers
C18_OrderTablePii ==
  (call.fn = "analyze_csv_file" /\ call.arg.file \in OrderFiles) =>
    \A k \in 1..Len(call.values) :
      /\ call.values[k].summary.kind = "report"
      /\ OrderHeader[1] \in call.values[k].summary.pii_columns
      /\ OrderHeader[2] \notin call.values[k].summary.pii_columns
      /\ OrderHeader[3] \notin call.values[k].summary.pii_columns

\* C19: a column is among the quality issues exactly when the number of its
\* empty or whitespace-only values in the sampled rows is more than 10% of
\* the number of sampled rows; a column with no such value is never among
\* them, and with no sampled row none is
C19_QualityIssues ==
  (call.fn = "analyze_csv_file" /\ call.arg.file.readable
     /\ call.arg.file.lines # <<>>) =>
    \A k \in 1..Len(call.values) :
      LET rows == SampledRows(call.arg.file)
          headers == CsvHeaders(call.arg.file)
          issues == call.values[k].summary.quality_issues
          nulls(c) == Cardinality({i \in 1..Len(rows) :
                        /\ c <= Len(rows[i])
                        /\ \A j \in 1..Len(rows[i][c]) : rows[i][c][j] \in WhiteSpace})
      IN \A c \in 1..Len(headers) :
           (\E i \in 1..Len(issues) : issues[i].name = headers[c])
             <=> (nulls(c) * 100 > 10 * Len(rows))


\* ---------------------------------------------------------------------
\* analyze_text_file
\* ---------------------------------------------------------------------

\* len(text.splitlines())
LineCount(text) ==
  Cardinality({i \in 1..Len(text) : text[i] = "\n"})
    + (IF text # <<>> /\ text[Len(text)] # "\n" THEN 1 ELSE 0)

\* generate_enhanced_summary(file_path, text): what the report says, part by
\* part (the owner and the wording are left out)
generate_enhanced_summary(file_path, text, sumy, nltk) ==
  [kind |-> "report",
   filename |-> file_path,
   file_ext |-> Join(Lower(PathSuffix(file_path))),
   size |-> Len(text),
   word_count |-> Len(SplitWords(text)),
   line_count |-> LineCount(text),
   content_summary |-> generate_summary(text, 3, sumy, nltk)]

\* analyze_text_file(file_path); libraries tells which optional libraries
\* were imported and what state they are in
analyze_text_file(file_path, file, libraries) ==
  LET file_ext == Join(Lower(PathSuffix(file_path)))
      text == extract_text_from_file(file_path, file, libraries.PDF_AVAILABLE,
                                     libraries.DOCX_AVAILABLE).text
  IN IF file_ext = ".csv" THEN analyze_csv_file(file, libraries.nltk)
     ELSE IF text = <<>>
     THEN [keywords |-> Keywords(<<>>), summary |-> EmptySummary]
     ELSE [keywords |-> Keywords(extract_keywords(text, 10, libraries.nltk)),
           summary |-> generate_enhanced_summary(file_path, text, libraries.sumy,
                         [available |-> libraries.nltk.available,
                          raises |-> ~libraries.nltk.corpus])]

\* the states of the optional libraries files are analysed under
LibrarySets ==
  { [PDF_AVAILABLE |-> pdf, DOCX_AVAILABLE |-> docx, nltk |-> nltk,
     sumy |-> [available |-> nltk.available, raises |-> FALSE, summary |-> <<>>]] :
    pdf \in BOOLEAN, docx \in BOOLEAN,
    nltk \in {n \in NltkStates : n.available = n.corpus} }

\* the files analysed, by extension: tables with at most one odd row and the
\* broken ones for .csv, text files and documents for the others
AnalysedFiles(extension) ==
  IF extension = <<".", "c", "s", "v">>
  THEN BrokenCsvFiles
         \cup {f \in TableFiles : Len(f.lines) <= 2 /\ f.lines[1] = <<<<"a">>, <<"b">>>>}
  ELSE IF extension = <<".", "t", "x", "t">> THEN TextFiles
  ELSE DocumentFiles

AnalyzeCalls ==
  UNION
    { {[fn |-> "analyze_text_file",
        arg |-> [file_path |-> <<"f">> \o extension, extension |-> Join(extension),
                 file |-> file, libraries |-> libraries],
        values |-> <<>>] :
         file \in AnalysedFiles(extension), libraries \in LibrarySets} :
      extension \in {<<".", "t", "x", "t">>, <<".", "c", "s", "v">>,
                     <<".", "p", "d", "f">>, <<".", "d", "o", "c", "x">>} }

CallAnalyzeTextFile ==
  /\ call.fn = "analyze_text_file"
  /\ Returns(analyze_text_file(call.arg.file_path, call.arg.file, call.arg.libraries))

\* the analysis of the file of a call fails: the file cannot be opened, the
\* document library in use cannot parse it, or a row of the table cannot be
\* read
AnalysisFails(arg) ==
  IF arg.extension = ".csv"
  THEN \/ ~arg.file.readable
       \/ /\ arg.file.lines # <<>>
          /\ ReadCells(arg.file.lines[1], CsvHeaders(arg.file),
                       SampledRows(arg.file), <<>>).failed
  ELSE IF arg.extension = ".txt" THEN ~arg.file.readable
  ELSE /\ \/ arg.extension = ".pdf" /\ arg.libraries.PDF_AVAILABLE
          \/ arg.extension = ".docx" /\ arg.libraries.DOCX_AVAILABLE
       /\ ~arg.file.readable \/ ~arg.file.parses

FirstAndLast(sentences) ==
  LET summary == IF Len(sentences) >= 2
                 THEN sentences[1] \o <<" ">> \o sentences[Len(sentences)]
                 ELSE sentences[1]
  IN Truncated(summary, SummaryLimit)

\* C22: for a text of twenty words or more, when the summarizer is missing or
\* fails, generate_summary returns the first sentence joined with the last
\* (the first alone when there is one), cut to 300 characters plus an
\* ellipsis, so the result is never longer than 303 characters
C22_FallbackSummary ==
  (/\ call.fn = "generate_summary"
   /\ call.arg.words >= ShortTextWords
   /\ (~call.arg.sumy.available \/ call.arg.sumy.raises)) =>
    \A k \in 1..Len(call.values) :
      /\ Len(call.values[k]) <= SummaryLimit + 3
      /\ ~call.arg.nltk.available =>
           call.values[k] =
             FirstAndLast(BasicSentences(CleanSummaryText(call.arg.text)))


\* tables of one column around the row limit
LongTableFiles ==
  { [readable |-> TRUE, lines |-> << <<<<"a">>>> >> \o Copies(<< <<"1">> >>, rows)] :
    rows \in {RowLimit - 1, RowLimit, RowLimit + 1} }

\* tables of one column whose values have any of the shapes, mixed or not
MixedFiles ==
  { [readable |-> TRUE, lines |-> << <<column>> >> \o rows] :
    column \in {<<"i", "d">>, <<"n", "o", "t", "e">>},
    rows \in Strings({ <<value>> : value \in
                        { <<"1", "2">>, <<"x", "1">>, <<"a", "@", "b", ".", "c", "o">>,
                          <<>> } }, MaxRows) }

StructureCalls ==
  { [fn |-> "analyze_csv_data_structure",
     arg |-> [file |-> file, headers |-> CsvHeaders(file)],
     values |-> <<>>] :
    file \in TableFiles \cup LongTableFiles \cup MixedFiles }

CallAnalyzeCsvDataStructure ==
  /\ call.fn = "analyze_csv_data_structure"
  /\ Returns(analyze_csv_data_structure(call.arg.file, call.arg.headers))

\* the data rows of a file: the lines after the header that are not empty
DataRows(file) == SelectSeq(Tail(file.lines), LAMBDA row : row # <<>>)

\* C23: the analyzer examines at most 1000 data rows and reports total_rows
\* as the smaller of the number of data rows and 1000, for every file, files
\* of more than 1000 rows and files with rows shorter than the header included
C23_TotalRows ==
  /\ call.fn = "analyze_csv_data_structure" =>
       \A k \in 1..Len(call.values) :
         call.values[k].total_rows =
           IF Len(DataRows(call.arg.file)) < RowLimit
           THEN Len(DataRows(call.arg.file)) ELSE RowLimit
  /\ (call.fn = "analyze_csv_file" /\ call.arg.file.readable
        /\ call.arg.file.lines # <<>>) =>
       \A k \in 1..Len(call.values) :
         call.values[k].summary.total_rows =
           IF Len(DataRows(call.arg.file)) < RowLimit
           THEN Len(DataRows(call.arg.file)) ELSE RowLimit


\* column names and values of every shape the type rules tell apart
TypedColumns ==
  { <<"i", "d">>, <<"O", "r", "d", "e", "r", "_", "I", "D">>,
    <<"a", "m", "o", "u", "n", "t">>, <<"P", "r", "i", "c", "e">>,
    <<"n", "o", "t", "e">>, <<"p", "h", "o", "n", "e">> }

TypedValues ==
  { <<"1", "2">>, <<"-", "1", ".", "5">>,
    <<"1", "2", "3", "4", "5", "6", "7", "8">>,
    <<"2", "0", "2", "4", "-", "0", "1", "-", "0", "2">>,
    <<"0", "1", "/", "0", "2", "/", "2", "0", "2", "4", " ", "9", "h">>,
    <<"a", "@", "b", ".", "c", "o">>,
    <<"5", "5", "5", "-", "1", "2", "3", "-", "4", "5", "6", "7">>,
    <<"+", "1", "2", "3", "4", "5", "6", "7", "8">>,
    <<"x", "1">>, <<"A", "l", " ", "B", "o">> }

DetectCalls ==
  { [fn |-> "detect_data_type",
     arg |-> [column_name |-> column, value |-> value],
     values |-> <<>>] :
    column \in TypedColumns, value \in TypedValues \cup {<<>>} }

\* what the call leaves as the column's type: nothing for an empty value
NoType == "unset"

CallDetectDataType ==
  /\ call.fn = "detect_data_type"
  /\ Returns(IF call.arg.value = <<>> THEN NoType
             ELSE detect_data_type(call.arg.column_name, call.arg.value))

\* C24: a non-empty value is typed by the first rule it matches in the order
\* numeric (currency in a money column), date, email, phone, id column, text;
\* a value matching an earlier rule never gets the type of a later one
C24_TypePriority ==
  (call.fn = "detect_data_type" /\ call.arg.value # <<>>) =>
    \A k \in 1..Len(call.values) :
      LET value == call.arg.value
          name == Join(Lower(call.arg.column_name))
          type == call.values[k]
          number == IsNumber(value)
          date == ~number /\ IsDate(value)
          email == ~number /\ ~date /\ IsEmail(value)
          phone == ~number /\ ~date /\ ~email /\ IsPhone(value)
          id == ~number /\ ~date /\ ~email /\ ~phone /\ name \in IdColumns
      IN /\ number => type = (IF name \in MoneyColumns THEN "currency" ELSE "numeric")
         /\ date => type = "date"
         /\ email => type = "email"
         /\ phone => type = "phone"
         /\ id => type = "id"
         /\ (~number /\ ~date /\ ~email /\ ~phone /\ ~id) => type = "text"

\* an eight-digit value in the column id has been typed numeric
C24_Witness ==
  /\ call.fn = "detect_data_type"
  /\ call.arg.column_name = <<"i", "d">>
  /\ call.arg.value = <<"1", "2", "3", "4", "5", "6", "7", "8">>
  /\ IsPhone(call.arg.value)
  /\ call.values = <<"numeric">>


\* column names inside and outside the name vocabularies, and sample values
\* of the shapes the value tests tell apart
PiiColumnNames ==
  { <<"s", "a", "l", "e", "s", "_", "r", "e", "p">>,
    <<"c", "o", "n", "t", "a", "c", "t", "_", "p", "e", "r", "s", "o", "n">>,
    <<"c", "u", "s", "t", "o", "m", "e", "r", "_", "n", "a", "m", "e">>,
    <<"r", "e", "g", "i", "o", "n">>,
    <<"d", "e", "s", "c", "r", "i", "p", "t", "i", "o", "n">>,
    <<"o", "r", "d", "e", "r", "_", "d", "a", "t", "e">>,
    <<"n", "o", "t", "e">>,
    <<"E", "m", "a", "i", "l">>,
    <<"n", "i", "c", "k", "n", "a", "m", "e">> }

PiiSampleValues ==
  { <<"A", "l", " ", "B", "o">>,
    <<"a", "@", "b", ".", "c", "o">>,
    <<"x", "1">>,
    <<"1", "2", "3", "-", "4", "5", "-", "6", "7", "8", "9">>,
    <<"5", "5", "5", "1", "2", "3", "4", "5", "6", "7">> }

PiiCalls ==
  { [fn |-> "get_pii_columns",
     arg |-> [headers |-> <<column>>,
              analysis |-> [columns |-> <<[name |-> column,
                                           sample_values |-> samples]>>]],
     values |-> <<>>] :
    column \in PiiColumnNames, samples \in Strings(PiiSampleValues, 2) }

CallGetPiiColumns ==
  /\ call.fn = "get_pii_columns"
  /\ Returns(get_pii_columns(call.arg.headers, call.arg.analysis))

\* the column name suggests a person
SuggestsPerson(col_lower) == \E word \in name_columns : Contains(col_lower, word)

\* the column name is in the PII vocabulary
InPiiVocabulary(col_lower) ==
  \E p \in pii_patterns \cup additional_pii_patterns : Contains(col_lower, p)

\* the column name is on the exclusion list
Excluded(col_lower) == \E p \in non_pii_patterns : Contains(col_lower, p)

\* a sample value matches the email, phone, SSN or credit-card pattern
ValueSignal(samples) ==
  \E i \in 1..Len(samples) :
    IsEmail(samples[i]) \/ IsPhone(samples[i]) \/ IsSsn(samples[i])
      \/ IsCreditCard(samples[i])

\* C25: a column with Firstname Lastname values is reported as PII on that
\* signal exactly when its name suggests a person: such values are flagged in
\* a column named sales_rep and not flagged in a column with another name
C25_NameShape ==
  call.fn = "get_pii_columns" =>
    \A k \in 1..Len(call.values) :
      LET column == call.arg.headers[1]
          col_lower == Lower(column)
          samples == call.arg.analysis.columns[1].sample_values
          shaped == \E i \in 1..Len(samples) : IsFullName(samples[i])
      IN /\ (shaped /\ SuggestsPerson(col_lower)) => column \in call.values[k]
         /\ (shaped /\ ~SuggestsPerson(col_lower) /\ ~ValueSignal(samples)
               /\ ~InPiiVocabulary(col_lower)) => column \notin call.values[k]

\* C26: a column is reported as PII when its name is in the PII vocabulary
\* and not excluded, or when a sampled value matches the email, phone, SSN
\* or credit-card pattern, whatever the column's name, excluded names included
C26_TwoSignals ==
  call.fn = "get_pii_columns" =>
    \A k \in 1..Len(call.values) :
      LET column == call.arg.headers[1]
          col_lower == Lower(column)
          samples == call.arg.analysis.columns[1].sample_values
      IN ((InPiiVocabulary(col_lower) /\ ~Excluded(col_lower))
            \/ ValueSignal(samples)) => column \in call.values[k]


\* the type-named group a data type belongs to
GroupOf(type) == IF type = "currency" THEN "numeric" ELSE type

\* analysis[group + '_columns'], as a set: the columns one of whose values
\* had a type of the group
GroupColumns(analysis, group) ==
  { analysis.columns[k].name :
      k \in {k \in DOMAIN analysis.columns :
               \E type \in analysis.columns[k].types : GroupOf(type) = group} }

\* C30: after the analysis every column is listed in a type-named group
\* exactly when its final data_type is the type of the group, numeric or
\* currency for numeric_columns, also for a column of mixed values
C30_TypeGroups ==
  /\ call.fn = "analyze_csv_data_structure" =>
       \A k \in 1..Len(call.values) :
         \A c \in DOMAIN call.values[k].columns :
           \A group \in {"numeric", "date", "email", "phone", "id", "text"} :
             (call.values[k].columns[c].name \in GroupColumns(call.values[k], group))
               <=> (GroupOf(call.values[k].columns[c].data_type) = group)
  /\ (call.fn = "analyze_csv_file" /\ call.arg.file.readable
        /\ call.arg.file.lines # <<>>) =>
       \A k \in 1..Len(call.values) :
         LET summary == call.values[k].summary
         IN \A c \in DOMAIN summary.columns :
              /\ (summary.columns[c].name \in summary.numeric_columns)
                   <=> (summary.columns[c].data_type \in {"numeric", "currency"})
              /\ (summary.columns[c].name \in summary.date_columns)
                   <=> (summary.columns[c].data_type = "date")
              /\ (summary.columns[c].name \in summary.email_columns)
                   <=> (summary.columns[c].data_type = "email")
              /\ (summary.columns[c].name \in summary.phone_columns)
                   <=> (summary.columns[c].data_type = "phone")

CallNext ==
  \/ CallExtractOwnerName
  \/ CallViewsExtractOwnerName
  \/ CallGetFileTypeCategory
  \/ CallExtractTextFromFile
  \/ CallExtractKeywords
  \/ CallGenerateSummary
  \/ CallAnalyzeCsvFile
  \/ CallAnalyzeTextFile
  \/ CallAnalyzeCsvDataStructure
  \/ CallDetectDataType
  \/ CallGetPiiColumns

InitCalls ==
  Idle /\ call \in OwnerCalls \cup ClassifyCalls \cup ExtractCalls
    \cup KeywordCalls
    \cup SummaryCalls
    \cup CsvCalls
    \cup AnalyzeCalls
    \cup StructureCalls
    \cup DetectCalls
    \cup PiiCalls

SpecCalls == InitCalls /\ [][CallNext]_vars

====
